---- MODULE Spec2Model ----
(***************************************************************************)
(* Model of the polymarket-analyzer core: the credibility scorer, the      *)
(* qualification filter with ranking, and the signal generator, together   *)
(* with the part of analyzeMarket that sequences them.                     *)
(*                                                                         *)
(* Number representation (JavaScript doubles are modelled by exact         *)
(* arithmetic on scaled integers):                                         *)
(*   - money (totalProfit, currentPositionSize, avgPositionSize) is in     *)
(*     whole dollars;                                                      *)
(*   - every score (the five components and the total) is in hundredths    *)
(*     of a point, so 40 points is 4000 and Math.round(x * 100) / 100 is   *)
(*     a rounding to an integer of this unit;                              *)
(*   - winRate is a whole percentage 0..100;                               *)
(*   - time is in hours since the epoch, and a Date is a record            *)
(*     [valid, time], valid = FALSE standing for an Invalid Date (NaN).    *)
(* Shares and ratios (yesPercentage, dominance, countRatio) are compared   *)
(* with their thresholds by cross-multiplication, never divided.           *)
(***************************************************************************)
EXTENDS Integers, Sequences, FiniteSets, TLC

VARIABLES
    pc,          \* where the modelled call stands
    now,         \* the clock, Date.now(), in hours since the epoch
    profile,     \* the Holder handed to calculateCredibilityScore (scorer runs)
    scoreLog,    \* the results of the successive scorer calls, with their time
    holders,     \* analyzeMarket: the partial holders the mapper produced
    priceWarn,   \* analyzeMarket: the market's prices read 0.5 / 0.5
    mapWarn,     \* analyzeMarket: the mapper reported its fallback warning
    listings,    \* analyzeMarket: how many holder listings fetchHolders returned
    enriched,    \* analyzeMarket: the profiles enrichHolders returned
    scoredHolders, \* analyzeMarket: the qualified holders, scored and sorted
    topHolders,  \* the ranked ScoredHolder list given to generateTradingSignal
    locals,      \* the locals of the generateTradingSignal call that ran
    result,      \* the TradingSignal returned (NoResult before the return)
    warnings,    \* analyzeMarket: the warnings list of the returned result
    market,      \* mapper runs: the MarketInfo parseMarket returned
    responses,   \* mapper runs: the HolderResponse list fetchHolders returned
    upstream,    \* enrichment: what the Data API answers for each wallet
    batch,       \* enrichment: the batch of enrichSingleHolder calls in flight,
                 \* with the call that settled first in it and in each
                 \* batch before it
    cache,       \* the MemoryCache singleton (profile entries)
    fetches,     \* how many requests have been sent to the Polymarket APIs
    request,     \* route runs: the request, and what the APIs answer to it
    client,      \* route runs: where the page's handleAnalyze stands
    response     \* route runs: the response POST returned (NoResponse before)

\* The variables of the mapper runs.
mapVars == << market, responses >>

\* The variables of the enrichment runs.
enrichVars == << upstream, batch, cache, fetches >>

\* The variables of the route runs.
routeVars == << request, client, response >>

\* The variables that the scorer, signal, pipeline and ranking runs leave alone.
extVars == << mapVars, enrichVars, routeVars >>

vars == << pc, now, profile, scoreLog, holders, priceWarn, mapWarn, listings,
           enriched, scoredHolders, topHolders, locals, result, warnings,
           extVars >>

(***************************************************************************)
(* Arithmetic helpers                                                      *)
(***************************************************************************)

Min(a, b) == IF a <= b THEN a ELSE b

Max(a, b) == IF a >= b THEN a ELSE b

\* Math.round(n / d) for d > 0: the nearest integer, a half rounding up.
RoundDiv(n, d) == (2 * n + d) \div (2 * d)

(***************************************************************************)
(* Bounds of the model                                                     *)
(***************************************************************************)

\* The clock at the start of a run: hours since the epoch, late 2026.
NowBase == 498000

\* The clock advances by this many hours between two observed moments.
TickHours == 12

\* How many times the clock advances in a scorer run.
MaxTicks == 2

\* How many scorer calls a scorer run records.
MaxCalls == 2

HoursPerDay == 24

EpochZero == [valid |-> TRUE, time |-> 0]

InvalidDate == [valid |-> FALSE, time |-> 0]

DateAt(t) == [valid |-> TRUE, time |-> t]

(***************************************************************************)
(* Credibility scorer                                                      *)
(***************************************************************************)

\* The profits the scorer runs draw from, in dollars.
ProfitValues == { -500, 0, 999, 5000, 50000, 2000000 }

\* Math.log10 on the positive profits of the model, as round(10^4 * log10(p)).
Log10E4(p) ==
    CASE p = 300     -> 24771
      [] p = 999     -> 29996
      [] p = 1000    -> 30000
      [] p = 5000    -> 36990
      [] p = 50000   -> 46990
      [] p = 2000000 -> 63010

PROFIT_MAX == 4000

\* calcProfitScore as it would be without the upper clamp Math.min(40, ..).
calcProfitScore_NoCap(totalProfit) ==
    IF totalProfit <= 0 THEN 0
    ELSE LET raw == 13 * (Log10E4(totalProfit) - 30000)
         IN  RoundDiv(Max(0, raw), 100)

\* raw is 13 * log10(totalProfit / 1000) in units of 10^-4 point.
calcProfitScore(totalProfit) ==
    IF totalProfit <= 0 THEN 0
    ELSE LET raw == 13 * (Log10E4(totalProfit) - 30000)
         IN  RoundDiv(Min(PROFIT_MAX * 100, Max(0, raw)), 100)

FULL_WEIGHT_MARKETS == 20

\* calcWinRateScore as it would be without the sample weight.
calcWinRateScore_NoDiscount(winRate, totalMarkets) ==
    IF totalMarkets = 0 THEN 0
    ELSE RoundDiv(Max(0, winRate * 25 * FULL_WEIGHT_MARKETS), FULL_WEIGHT_MARKETS)

\* (winRate / 100) * 25 * min(1, totalMarkets / 20), rounded to hundredths.
calcWinRateScore(winRate, totalMarkets) ==
    IF totalMarkets = 0 THEN 0
    ELSE LET weightNum == Min(FULL_WEIGHT_MARKETS, totalMarkets)
             raw == winRate * 25 * weightNum
         IN  RoundDiv(Max(0, raw), FULL_WEIGHT_MARKETS)

calcVolumeScore(totalMarkets) ==
    IF totalMarkets <= 0 THEN 0
    ELSE IF totalMarkets >= 20 /\ totalMarkets <= 200 THEN 1500
    ELSE IF totalMarkets < 20 THEN RoundDiv(totalMarkets * 1500, 20)
    ELSE 1200

\* calcRecencyScore as it would be with the age compared without Math.floor.
calcRecencyScore_NoFloor(lastTradeDate, clock) ==
    IF ~lastTradeDate.valid \/ lastTradeDate.time > clock THEN 1000
    ELSE LET age == clock - lastTradeDate.time
         IN  IF age <= 7 * HoursPerDay THEN 1000
             ELSE IF age <= 30 * HoursPerDay THEN 700
             ELSE IF age <= 90 * HoursPerDay THEN 400
             ELSE 0

\* calcRecencyScore as it would be with the brackets closed on the other
\* side: 7, 30 and 90 days falling into the next bracket.
calcRecencyScore_Exclusive(lastTradeDate, clock) ==
    IF ~lastTradeDate.valid \/ lastTradeDate.time > clock THEN 1000
    ELSE LET daysSince == (clock - lastTradeDate.time) \div HoursPerDay
         IN  IF daysSince < 7 THEN 1000
             ELSE IF daysSince < 30 THEN 700
             ELSE IF daysSince < 90 THEN 400
             ELSE 0

\* clock is what Date.now() returns at the call.
calcRecencyScore(lastTradeDate, clock) ==
    IF ~lastTradeDate.valid \/ lastTradeDate.time > clock THEN 1000
    ELSE LET daysSince == (clock - lastTradeDate.time) \div HoursPerDay
         IN  IF daysSince <= 7 THEN 1000
             ELSE IF daysSince <= 30 THEN 700
             ELSE IF daysSince <= 90 THEN 400
             ELSE 0

\* min(10, (currentSize / avgSize) * 5), rounded to hundredths.
calcConvictionScore(currentSize, avgSize) ==
    IF avgSize <= 0 \/ currentSize <= 0 THEN 0
    ELSE IF 5 * currentSize >= 10 * avgSize THEN 1000
    ELSE RoundDiv(500 * currentSize, avgSize)

calculateCredibilityScore(holder, clock) ==
    LET breakdown ==
            [ profit     |-> calcProfitScore(holder.totalProfit),
              winRate    |-> calcWinRateScore(holder.winRate, holder.totalMarkets),
              volume     |-> calcVolumeScore(holder.totalMarkets),
              recency    |-> calcRecencyScore(holder.lastTradeDate, clock),
              conviction |-> calcConvictionScore(holder.currentPositionSize,
                                                 holder.avgPositionSize) ]
        total == breakdown.profit + breakdown.winRate + breakdown.volume
                 + breakdown.recency + breakdown.conviction
    IN  [ total |-> RoundDiv(total, 1), breakdown |-> breakdown ]

(***************************************************************************)
(* Values before a call has produced them                                  *)
(***************************************************************************)

NoResult == [ signal |-> "NONE", confidence |-> -1, reasoning |-> << >>,
              data |-> << >> ]

NoProfile == [ address |-> << >> ]

(***************************************************************************)
(* Idle values of the variables a run does not use                         *)
(***************************************************************************)

NoMarket == [ outcomes |-> << >>, outcomePrices |-> << >>, clobTokenIds |-> << >> ]

MapIdle == market = NoMarket /\ responses = << >>

EmptyCache == [ event |-> { }, holders |-> { }, leaderboard |-> { }, positions |-> { } ]

NoBatch ==
    [ phase |-> "idle", start |-> 0, inflight |-> { }, plans |-> << >>,
      settled |-> << >>, first |-> 0, firsts |-> << >> ]

EnrichIdle ==
    /\ upstream = << >>
    /\ batch = NoBatch
    /\ cache = EmptyCache
    /\ fetches = 0

NoRequest == [ url |-> "none", event |-> "none", listing |-> "none", market |-> NoMarket ]

NoResponse == [ status |-> 0, error |-> << >> ]

RouteIdle ==
    /\ request = NoRequest
    /\ client = "idle"
    /\ response = NoResponse

ExtIdle == MapIdle /\ EnrichIdle /\ RouteIdle

(***************************************************************************)
(* Signal generator                                                        *)
(***************************************************************************)

\* An address is << first six characters, middle, last four characters >>;
\* the empty string is << >>.
Addr(i) == << 10, i, 20 >>

shortenAddress(addr) ==
    IF Len(addr) < 3 THEN addr ELSE << addr[1], addr[3] >>

\* a / t to k decimal digits, as quotient and remainder, for a >= 0 and t > 0.
RECURSIVE Digits(_, _, _)
Digits(a, t, k) ==
    IF k = 0 THEN [ q |-> a \div t, r |-> a % t ]
    ELSE LET p == Digits(a, t, k - 1)
         IN  [ q |-> p.q * 10 + (p.r * 10) \div t, r |-> (p.r * 10) % t ]

\* Math.round((a / t) * 10^k)
RoundRatio(a, t, k) ==
    LET p == Digits(a, t, k) IN IF 2 * p.r >= t THEN p.q + 1 ELSE p.q

\* weightedValue as it would be with the credibility score left out.
weightedValue_Unweighted(h) == h.currentPositionSize * 10000

\* currentPositionSize * (total / 100), in units of 10^-4 dollar.
weightedValue(h) == h.currentPositionSize * h.credibilityScore.total

RECURSIVE SumWeighted(_)
SumWeighted(s) ==
    IF s = << >> THEN 0 ELSE weightedValue(Head(s)) + SumWeighted(Tail(s))

RECURSIVE SumRaw(_)
SumRaw(s) ==
    IF s = << >> THEN 0 ELSE Head(s).currentPositionSize + SumRaw(Tail(s))

IsYes(h) == h.currentPosition = "YES"

IsNo(h) == h.currentPosition = "NO"

\* IsWhale as it would be with >= in place of >.
IsWhale_AtThreshold(h, totalValue) == 5 * weightedValue(h) >= 2 * totalValue

\* weightedValue(h) > totalValue * 0.4
IsWhale(h, totalValue) == 5 * weightedValue(h) > 2 * totalValue

\* Array.prototype.find: the index of the first whale, 0 when there is none.
FindWhale(top, totalValue) ==
    LET hits == { i \in 1..Len(top) : IsWhale(top[i], totalValue) }
    IN  IF hits = {} THEN 0
        ELSE CHOOSE i \in hits : \A j \in hits : i <= j

\* BaseConfidence as it would be with brackets that include their lower bound.
BaseConfidence_Inclusive(domNum, totalValue) ==
    IF 5 * domNum >= 4 * totalValue THEN 9
    ELSE IF 10 * domNum >= 7 * totalValue THEN 7
    ELSE IF 5 * domNum >= 3 * totalValue THEN 5
    ELSE 3

\* dominance is domNum / totalValue: > 0.80, > 0.70, > 0.60, else.
BaseConfidence(domNum, totalValue) ==
    IF 5 * domNum > 4 * totalValue THEN 9
    ELSE IF 10 * domNum > 7 * totalValue THEN 7
    ELSE IF 5 * domNum > 3 * totalValue THEN 5
    ELSE 3

\* WhalePenalty as it would be without the floor Math.max(1, ..).
WhalePenalty_NoFloor(confidence, whale) ==
    IF whale # 0 THEN confidence - 3 ELSE confidence

WhalePenalty(confidence, whale) ==
    IF whale # 0 THEN Max(1, confidence - 3) ELSE confidence

\* CountBoost as it would be without the test topHolders.length >= 5.
CountBoost_AnyLength(confidence, dominantCount, n) ==
    IF 5 * dominantCount >= 4 * n
    THEN Min(10, confidence + 1) ELSE confidence

\* countRatio >= 0.80 && topHolders.length >= 5
CountBoost(confidence, dominantCount, n) ==
    IF 5 * dominantCount >= 4 * n /\ n >= 5
    THEN Min(10, confidence + 1) ELSE confidence

\* Decide as it would be with the confidence gate at 4.
Decide_LowGate(yesValue, totalValue, confidence) ==
    IF 20 * yesValue >= 13 * totalValue /\ confidence >= 4 THEN "BUY YES"
    ELSE IF 20 * yesValue <= 7 * totalValue /\ confidence >= 4 THEN "BUY NO"
    ELSE "INCONCLUSIVE"

\* yesPercentage >= 0.65 / <= 0.35, with confidence >= 5
Decide(yesValue, totalValue, confidence) ==
    IF 20 * yesValue >= 13 * totalValue /\ confidence >= 5 THEN "BUY YES"
    ELSE IF 20 * yesValue <= 7 * totalValue /\ confidence >= 5 THEN "BUY NO"
    ELSE "INCONCLUSIVE"

HolderSummary(h) ==
    [ address        |-> shortenAddress(h.address),
      score          |-> h.credibilityScore.total,
      scoreBreakdown |-> h.credibilityScore.breakdown,
      position       |-> h.currentPosition,
      size           |-> h.currentPositionSize,
      profit         |-> h.totalProfit,
      winRate        |-> h.winRate,
      totalMarkets   |-> h.totalMarkets ]

\* A reasoning string, by its parts.
Reasoning(head, count, of, pct, whalePct, tail) ==
    [ head |-> head, count |-> count, of |-> of, pct |-> pct,
      whalePct |-> whalePct, tail |-> tail ]

\* A result without SignalData; data is << >> for null, << d >> otherwise.
Inconclusive(reasoning) ==
    [ signal |-> "INCONCLUSIVE", confidence |-> 0, reasoning |-> reasoning,
      data |-> << >> ]

\* The locals of a generateTradingSignal call; stage tells how far it ran.
NoLocals ==
    [ stage |-> "none", yesCount |-> 0, noCount |-> 0, yesValue |-> 0,
      noValue |-> 0, totalValue |-> 0, yesValueRaw |-> 0, noValueRaw |-> 0,
      whale |-> 0, domNum |-> 0, base |-> 0, penalised |-> 0,
      confidence |-> 0, signal |-> "INCONCLUSIVE" ]

\* TooFew as it would be with a minimum of two holders.
TooFew_Two(top) == Len(top) < 2

\* topHolders.length < 3
TooFew(top) == Len(top) < 3

SignalLocals(top) ==
    IF TooFew(top) THEN [ NoLocals EXCEPT !.stage = "tooFew" ]
    ELSE
    LET yesList    == SelectSeq(top, IsYes)
        noList     == SelectSeq(top, IsNo)
        yesValue   == SumWeighted(yesList)
        noValue    == SumWeighted(noList)
        totalValue == yesValue + noValue
        split      == [ NoLocals EXCEPT !.yesCount = Len(yesList),
                                        !.noCount = Len(noList),
                                        !.yesValue = yesValue,
                                        !.noValue = noValue,
                                        !.totalValue = totalValue,
                                        !.yesValueRaw = SumRaw(yesList),
                                        !.noValueRaw = SumRaw(noList) ]
    IN
    IF totalValue = 0 THEN [ split EXCEPT !.stage = "zeroTotal" ]
    ELSE
    LET whale      == FindWhale(top, totalValue)
        domNum     == Max(yesValue, totalValue - yesValue)
        base       == BaseConfidence(domNum, totalValue)
        penalised  == WhalePenalty(base, whale)
        dominantCount == Max(Len(yesList), Len(noList))
        confidence == CountBoost(penalised, dominantCount, Len(top))
    IN  [ split EXCEPT !.stage = "decided",
                       !.whale = whale,
                       !.domNum = domNum,
                       !.base = base,
                       !.penalised = penalised,
                       !.confidence = confidence,
                       !.signal = Decide(yesValue, totalValue, confidence) ]

generateTradingSignal(top) ==
    LET l == SignalLocals(top) IN
    IF l.stage = "tooFew"
    THEN Inconclusive(Reasoning("OnlyNHolders", Len(top), 3, 0, -1, ""))
    ELSE IF l.stage = "zeroTotal"
    THEN Inconclusive(Reasoning("TotalValueZero", 0, 0, 0, -1, ""))
    ELSE
    LET whalePct == IF l.whale = 0 THEN -1
                    ELSE RoundRatio(weightedValue(top[l.whale]), l.totalValue, 2)
        tail     == IF l.signal # "INCONCLUSIVE" THEN ""
                    ELSE IF 5 * l.domNum < 3 * l.totalValue THEN "Split"
                    ELSE "LeanBelowThreshold"
    IN  [ signal     |-> l.signal,
          confidence |-> l.confidence,
          reasoning  |-> Reasoning("Summary", l.yesCount, Len(top),
                                   RoundRatio(l.yesValue, l.totalValue, 2),
                                   whalePct, tail),
          data       |-> << [ yesHolders    |-> l.yesCount,
                              noHolders     |-> l.noCount,
                              yesValue      |-> l.yesValueRaw,
                              noValue       |-> l.noValueRaw,
                              yesPercentage |-> RoundRatio(l.yesValue, l.totalValue, 3),
                              whaleDetected |-> l.whale # 0,
                              topHolders    |-> [ i \in 1..Len(top) |->
                                                    HolderSummary(top[i]) ] ] >> ]

(***************************************************************************)
(* Scorer runs: one profile, scored at successive moments                  *)
(***************************************************************************)

\* Last-trade times around the recency brackets, an Invalid Date, a time in
\* the future and the epoch.
LastTradeValues ==
    { InvalidDate, EpochZero, DateAt(NowBase + 1) }
    \cup { DateAt(NowBase - d * HoursPerDay) : d \in { 7, 30, 90 } }

Profiles ==
    [ address             : { << 10, 1, 20 >> },
      totalProfit         : ProfitValues,
      totalMarkets        : { 0, 10, 20, 201 },
      winRate             : { 0, 80, 100 },
      lastTradeDate       : LastTradeValues,
      avgPositionSize     : { 0, 100 },
      currentPosition     : { "YES" },
      currentPositionSize : { 0, 50, 200 } ]

InitScore ==
    /\ pc = "score"
    /\ now = NowBase
    /\ profile \in Profiles
    /\ scoreLog = << >>
    /\ holders = << >>
    /\ priceWarn = FALSE
    /\ mapWarn = FALSE
    /\ listings = 0
    /\ enriched = << >>
    /\ scoredHolders = << >>
    /\ topHolders = << >>
    /\ locals = NoLocals
    /\ result = NoResult
    /\ warnings = << >>
    /\ ExtIdle

\* A caller scores the profile; the call reads the clock.
ScoreCall ==
    /\ pc = "score"
    /\ Len(scoreLog) < MaxCalls
    /\ scoreLog' = Append(scoreLog,
                          [ at |-> now,
                            score |-> calculateCredibilityScore(profile, now) ])
    /\ UNCHANGED << pc, now, profile, holders, priceWarn, mapWarn, listings,
                    enriched, scoredHolders, topHolders, locals, result, warnings >>
    /\ UNCHANGED extVars

\* Time passes between two calls.
Tick ==
    /\ pc = "score"
    /\ now < NowBase + MaxTicks * TickHours
    /\ now' = now + TickHours
    /\ UNCHANGED << pc, profile, scoreLog, holders, priceWarn, mapWarn,
                    listings, enriched, scoredHolders, topHolders, locals,
                    result, warnings >>
    /\ UNCHANGED extVars

NextScore == ScoreCall \/ Tick

SpecScore == InitScore /\ [][NextScore]_vars

(***************************************************************************)
(* Signal runs: generateTradingSignal called on a ranked list              *)
(***************************************************************************)

\* How many ranked holders a signal run hands to generateTradingSignal.
MaxHolders == 5

\* Histories as enrichSingleHolder returns them.
\* Nothing known about the wallet: every source failed or was empty.
HistBlank ==
    [ totalProfit |-> 0, totalMarkets |-> 0, winRate |-> 0,
      lastTradeDate |-> EpochZero, avgPositionSize |-> 0 ]

\* Twenty markets, all won, traded an hour ago, no profit on record.
HistMid ==
    [ totalProfit |-> 0, totalMarkets |-> 20, winRate |-> 100,
      lastTradeDate |-> DateAt(NowBase - 1), avgPositionSize |-> 0 ]

\* As HistMid, with two million dollars of profit and a small average bet.
HistTop ==
    [ totalProfit |-> 2000000, totalMarkets |-> 20, winRate |-> 100,
      lastTradeDate |-> DateAt(NowBase - 1), avgPositionSize |-> 1 ]

\* A profit one dollar under and exactly at the alternative floor.
HistUnder ==
    [ totalProfit |-> 999, totalMarkets |-> 20, winRate |-> 80,
      lastTradeDate |-> DateAt(NowBase - 1), avgPositionSize |-> 100 ]

HistAt == [ HistUnder EXCEPT !.totalProfit = 1000 ]

MakeHolder(i, position, size, hist) ==
    [ address             |-> Addr(i),
      totalProfit         |-> hist.totalProfit,
      totalMarkets        |-> hist.totalMarkets,
      winRate             |-> hist.winRate,
      lastTradeDate       |-> hist.lastTradeDate,
      avgPositionSize     |-> hist.avgPositionSize,
      currentPosition     |-> position,
      currentPositionSize |-> size ]

\* { ...holder, credibilityScore: calculateCredibilityScore(holder) }
Scored(holder, clock) ==
    [ address             |-> holder.address,
      totalProfit         |-> holder.totalProfit,
      totalMarkets        |-> holder.totalMarkets,
      winRate             |-> holder.winRate,
      lastTradeDate       |-> holder.lastTradeDate,
      avgPositionSize     |-> holder.avgPositionSize,
      currentPosition     |-> holder.currentPosition,
      currentPositionSize |-> holder.currentPositionSize,
      credibilityScore    |-> calculateCredibilityScore(holder, clock) ]

\* The kinds of holder a signal run draws from, in ranked (score) order:
\* score 100 with five sizes, score 50, score 0, each on either side.
SignalKinds ==
    << [ position |-> "YES", size |-> 100, hist |-> HistTop ],
       [ position |-> "YES", size |-> 150, hist |-> HistTop ],
       [ position |-> "YES", size |-> 200, hist |-> HistTop ],
       [ position |-> "YES", size |-> 400, hist |-> HistTop ],
       [ position |-> "YES", size |-> 450, hist |-> HistTop ],
       [ position |-> "NO",  size |-> 100, hist |-> HistTop ],
       [ position |-> "NO",  size |-> 150, hist |-> HistTop ],
       [ position |-> "NO",  size |-> 200, hist |-> HistTop ],
       [ position |-> "NO",  size |-> 400, hist |-> HistTop ],
       [ position |-> "NO",  size |-> 450, hist |-> HistTop ],
       [ position |-> "YES", size |-> 200, hist |-> HistMid ],
       [ position |-> "NO",  size |-> 200, hist |-> HistMid ],
       [ position |-> "YES", size |-> 100, hist |-> HistBlank ],
       [ position |-> "NO",  size |-> 100, hist |-> HistBlank ] >>

\* The non-decreasing sequences over 1..kinds of length at most n.
RECURSIVE Choices(_, _)
Choices(kinds, n) ==
    IF n = 0 THEN { << >> }
    ELSE LET prev == Choices(kinds, n - 1)
         IN  prev \cup
             { Append(p[1], p[2]) :
                 p \in { q \in prev \X (1..kinds) :
                           /\ Len(q[1]) = n - 1
                           /\ (n = 1 \/ q[1][n - 1] <= q[2]) } }

RankedList(choice) ==
    [ i \in 1..Len(choice) |->
        Scored(MakeHolder(i, SignalKinds[choice[i]].position,
                          SignalKinds[choice[i]].size,
                          SignalKinds[choice[i]].hist), NowBase) ]

InitSignal ==
    /\ pc = "signal"
    /\ now = NowBase
    /\ profile = NoProfile
    /\ scoreLog = << >>
    /\ holders = << >>
    /\ priceWarn = FALSE
    /\ mapWarn = FALSE
    /\ listings = 0
    /\ enriched = << >>
    /\ scoredHolders = << >>
    /\ topHolders \in { RankedList(c) : c \in Choices(Len(SignalKinds), MaxHolders) }
    /\ locals = NoLocals
    /\ result = NoResult
    /\ warnings = << >>
    /\ ExtIdle

\* A caller hands the ranked list to generateTradingSignal.
CallSignal ==
    /\ pc = "signal"
    /\ locals' = SignalLocals(topHolders)
    /\ result' = generateTradingSignal(topHolders)
    /\ pc' = "returned"
    /\ UNCHANGED << now, profile, scoreLog, holders, priceWarn, mapWarn,
                    listings, enriched, scoredHolders, topHolders, warnings >>
    /\ UNCHANGED extVars

NextSignal == CallSignal

SpecSignal == InitSignal /\ [][NextSignal]_vars

(***************************************************************************)
(* analyzeMarket, from the return of fetchHolders to the returned result   *)
(***************************************************************************)

\* How many partial holders the mapper hands to enrichment in a run.
MaxWallets == 3

MIN_POSITION_SIZE == 100

MIN_PROFIT_ALT == 1000

TopN == 20

\* Qualifies as it would be with exclusive floors.
Qualifies_Strict(h) ==
    h.currentPositionSize > MIN_POSITION_SIZE \/ h.totalProfit > MIN_PROFIT_ALT

Qualifies(h) ==
    h.currentPositionSize >= MIN_POSITION_SIZE \/ h.totalProfit >= MIN_PROFIT_ALT

HasNoData(h) == h.totalProfit = 0 /\ h.totalMarkets = 0

\* InsertByScore as it would be if the sort put a wallet ahead of the wallets
\* it ties with.
RECURSIVE InsertByScore_TiesFirst(_, _)
InsertByScore_TiesFirst(sorted, h) ==
    IF sorted = << >> THEN << h >>
    ELSE IF Head(sorted).credibilityScore.total > h.credibilityScore.total
         THEN << Head(sorted) >> \o InsertByScore_TiesFirst(Tail(sorted), h)
         ELSE << h >> \o sorted

\* scoredHolders.sort((a, b) => b.total - a.total): stable, descending.
RECURSIVE InsertByScore(_, _)
InsertByScore(sorted, h) ==
    IF sorted = << >> THEN << h >>
    ELSE IF Head(sorted).credibilityScore.total >= h.credibilityScore.total
         THEN << Head(sorted) >> \o InsertByScore(Tail(sorted), h)
         ELSE << h >> \o sorted

RECURSIVE SortByScore(_)
SortByScore(s) ==
    IF s = << >> THEN << >>
    ELSE InsertByScore(SortByScore(SubSeq(s, 1, Len(s) - 1)), s[Len(s)])

\* .slice(0, n)
Slice(s, n) == SubSeq(s, 1, Min(n, Len(s)))

Warning(kind, count, of) == [ kind |-> kind, count |-> count, of |-> of ]

PriceWarnings == IF priceWarn THEN << Warning("Prices5050", 0, 0) >> ELSE << >>

MappingWarnings == IF mapWarn THEN << Warning("IndexFallback", 0, 0) >> ELSE << >>

\* enrichHolders' own warning, from the profiles it returns.
EnrichmentWarnings(profiles) ==
    LET incomplete == Len(SelectSeq(profiles, HasNoData))
    IN  IF incomplete > 0
        THEN << Warning("IncompleteProfiles", incomplete, Len(profiles)) >>
        ELSE << >>

\* The partial holders the mapper hands on: a side and a dollar size.
PartialKinds ==
    << [ position |-> "YES", size |-> 99 ],
       [ position |-> "YES", size |-> 100 ],
       [ position |-> "YES", size |-> 400 ],
       [ position |-> "NO",  size |-> 99 ],
       [ position |-> "NO",  size |-> 100 ],
       [ position |-> "NO",  size |-> 400 ] >>

PartialList(choice) ==
    [ i \in 1..Len(choice) |->
        [ address             |-> Addr(i),
          currentPosition     |-> PartialKinds[choice[i]].position,
          currentPositionSize |-> PartialKinds[choice[i]].size ] ]

\* What enrichSingleHolder can return for a wallet in a run.
Histories == { HistBlank, HistUnder, HistAt }

Init ==
    /\ pc = "fetchHolders"
    /\ now = NowBase
    /\ profile = NoProfile
    /\ scoreLog = << >>
    /\ listings \in { 0, 2 }
    /\ holders \in IF listings = 0 THEN { << >> }
                   ELSE { PartialList(c) : c \in Choices(Len(PartialKinds), MaxWallets) }
    /\ priceWarn \in BOOLEAN
    /\ mapWarn \in IF listings = 0 THEN { FALSE } ELSE BOOLEAN
    /\ enriched = << >>
    /\ scoredHolders = << >>
    /\ topHolders = << >>
    /\ locals = NoLocals
    /\ result = NoResult
    /\ warnings = << >>
    /\ ExtIdle

\* NoListings as it would be if the empty answer were not looked for.
NoListings_Never(n) == FALSE

\* !holderResponses || holderResponses.length === 0
NoListings(n) == n = 0

\* fetchHolders throws (rate limited, or any other failure of the request).
FetchHoldersFails ==
    /\ pc = "fetchHolders"
    /\ pc' = "error"
    /\ UNCHANGED << now, profile, scoreLog, holders, priceWarn, mapWarn,
                    listings, enriched, scoredHolders, topHolders, locals,
                    result, warnings >>
    /\ UNCHANGED extVars

\* fetchHolders returns no listing.
NoHolderData ==
    /\ pc = "fetchHolders"
    /\ NoListings(listings)
    /\ warnings' = << Warning("NoHolderData", 0, 0) >>
    /\ result' = Inconclusive(Reasoning("NoHolderData", 0, 0, 0, -1, ""))
    /\ pc' = "done"
    /\ UNCHANGED << now, profile, scoreLog, holders, priceWarn, mapWarn,
                    listings, enriched, scoredHolders, topHolders, locals >>
    /\ UNCHANGED extVars

\* The mapper finds no holder in the listings.
NoHoldersFound ==
    /\ pc = "fetchHolders"
    /\ ~NoListings(listings)
    /\ holders = << >>
    /\ warnings' = PriceWarnings \o MappingWarnings
    /\ result' = Inconclusive(Reasoning("NoHoldersFound", 0, 0, 0, -1, ""))
    /\ pc' = "done"
    /\ UNCHANGED << now, profile, scoreLog, holders, priceWarn, mapWarn,
                    listings, enriched, scoredHolders, topHolders, locals >>
    /\ UNCHANGED extVars

\* The mapper returns holders and enrichHolders is awaited.
StartEnrichment ==
    /\ pc = "fetchHolders"
    /\ ~NoListings(listings)
    /\ holders # << >>
    /\ warnings' = PriceWarnings \o MappingWarnings
    /\ pc' = "enrich"
    /\ UNCHANGED << now, profile, scoreLog, holders, priceWarn, mapWarn,
                    listings, enriched, scoredHolders, topHolders, locals,
                    result >>
    /\ UNCHANGED extVars

\* The rest of analyzeMarket once enrichHolders has returned the profiles
\* and its warnings have been pushed: filter, score, sort, slice, signal,
\* return.
FinishFrom(profiles, pushed) ==
    LET qualifiedHolders == SelectSeq(profiles, Qualifies)
        holdersWithNoData == Len(SelectSeq(profiles, HasNoData))
        noDataWarnings ==
            IF 2 * holdersWithNoData > Len(profiles)
            THEN << Warning("NoHistoricalData", holdersWithNoData,
                            Len(profiles)) >>
            ELSE << >>
        sorted == SortByScore([ i \in 1..Len(qualifiedHolders) |->
                                  Scored(qualifiedHolders[i], now) ])
        top == Slice(sorted, TopN)
    IN  /\ enriched' = profiles
        /\ warnings' = pushed \o noDataWarnings
        /\ IF qualifiedHolders = << >>
           THEN /\ result' = Inconclusive(Reasoning("NoQualified",
                                 Len(profiles), 0, 0, -1, ""))
                /\ UNCHANGED << scoredHolders, topHolders, locals >>
           ELSE /\ scoredHolders' = sorted
                /\ topHolders' = top
                /\ locals' = SignalLocals(top)
                /\ result' = generateTradingSignal(top)
        /\ pc' = "done"
        /\ UNCHANGED << now, profile, scoreLog, holders, priceWarn, mapWarn,
                        listings >>
        /\ UNCHANGED extVars

\* The same, the wallets' histories being hs.
Finish(hs) ==
    LET profiles == [ i \in 1..Len(holders) |->
                        MakeHolder(i, holders[i].currentPosition,
                                   holders[i].currentPositionSize, hs[i]) ]
    IN  FinishFrom(profiles, warnings \o EnrichmentWarnings(profiles))

\* enrichHolders returns; the rest of analyzeMarket runs to its return.
FinishAnalysis ==
    /\ pc = "enrich"
    /\ \E hs \in [ 1..Len(holders) -> Histories ] : Finish(hs)

Next ==
    \/ FetchHoldersFails
    \/ NoHolderData
    \/ NoHoldersFound
    \/ StartEnrichment
    \/ FinishAnalysis

Spec == Init /\ [][Next]_vars

\* Every call of the model that returns a TradingSignal.
InitReturns == Init \/ InitSignal

NextReturns == Next \/ NextSignal

SpecReturns == InitReturns /\ [][NextReturns]_vars

(***************************************************************************)
(* Ranking runs: analyzeMarket from the return of enrichHolders, on lists  *)
(* long enough for the slice to cut                                        *)
(***************************************************************************)

\* How many wallets a ranking run enriches (fetchHolders asks for 20 a side).
MaxRanked == 28

\* The histories of a ranking run, by kind.
RankHistories == << HistBlank, HistUnder, HistAt, HistMid, HistTop >>

\* Wallet i of a ranking run has the PartialKinds entry number i + shift, and
\* the RankHistories entry number i * step + shift, both taken cyclically.
RankPartials(n, shift) ==
    [ i \in 1..n |->
        [ address             |-> Addr(i),
          currentPosition     |-> PartialKinds[((i + shift) % Len(PartialKinds)) + 1].position,
          currentPositionSize |-> PartialKinds[((i + shift) % Len(PartialKinds)) + 1].size ] ]

RankHistoryOf(n, step, shift) ==
    [ i \in 1..n |-> RankHistories[((i * step + shift) % Len(RankHistories)) + 1] ]

InitRank ==
    /\ pc = "enrich"
    /\ now = NowBase
    /\ profile = NoProfile
    /\ scoreLog = << >>
    /\ listings = 2
    /\ \E n \in 1..MaxRanked, shift \in 0..(Len(PartialKinds) - 1) :
         holders = RankPartials(n, shift)
    /\ priceWarn = FALSE
    /\ mapWarn = FALSE
    /\ enriched = << >>
    /\ scoredHolders = << >>
    /\ topHolders = << >>
    /\ locals = NoLocals
    /\ result = NoResult
    /\ warnings = << >>
    /\ ExtIdle

\* enrichHolders returns the profiles of a ranking run.
FinishRanking ==
    /\ pc = "enrich"
    /\ \E step \in 1..2, shift \in 0..(Len(RankHistories) - 1) :
         Finish(RankHistoryOf(Len(holders), step, shift))

NextRank == FinishRanking

SpecRank == InitRank /\ [][NextRank]_vars

(***************************************************************************)
(* mapHoldersToPositions                                                   *)
(***************************************************************************)

\* How many raw holders the listings of a mapper run hold together, and how
\* many listings there are.
MaxRaw == 3

MaxListings == 2

\* The parts of an address are numbers below UpperOffset when written in
\* lower case; adding UpperOffset to the middle part writes the letters of
\* that part in upper case.
UpperOffset == 100

AddrMixed(i) == << 10, i + UpperOffset, 20 >>

\* String.prototype.toLowerCase on an address.
toLowerCase(addr) == [ k \in DOMAIN addr |-> addr[k] % UpperOffset ]

\* String.prototype.toUpperCase on an outcome name.
toUpperCase(name) ==
    CASE name \in { "Yes", "yes", "YES" } -> "YES"
      [] name \in { "No", "no", "NO" }    -> "NO"
      [] name = "Up"                      -> "UP"
      [] name = "Down"                    -> "DOWN"
      [] OTHER                            -> name

\* The MarketInfo values of the mapper runs; a price is in cents on the
\* dollar.  The fourth and the fifth are markets whose clobTokenIds did not
\* parse, the last one a market with a price list shorter than its outcomes.
Markets ==
    { [ outcomes |-> << "Yes", "No" >>, outcomePrices |-> << 60, 40 >>,
        clobTokenIds |-> << "tokA", "tokB" >> ],
      [ outcomes |-> << "No", "Yes" >>, outcomePrices |-> << 30, 70 >>,
        clobTokenIds |-> << "tokA", "tokB" >> ],
      [ outcomes |-> << "Up", "Down" >>, outcomePrices |-> << 50, 50 >>,
        clobTokenIds |-> << "tokA", "tokB" >> ],
      [ outcomes |-> << "Yes", "No" >>, outcomePrices |-> << 60, 40 >>,
        clobTokenIds |-> << >> ],
      [ outcomes |-> << "No", "Yes" >>, outcomePrices |-> << 30, 70 >>,
        clobTokenIds |-> << >> ],
      [ outcomes |-> << "Yes", "No" >>, outcomePrices |-> << 60 >>,
        clobTokenIds |-> << "tokA", "tokB" >> ] }

\* market.outcomeForToken[token], "" standing for undefined: parseMarket
\* fills the map for i below min(outcomes.length, clobTokenIds.length).
outcomeForToken(m, token) ==
    LET hits == { i \in 1..Min(Len(m.outcomes), Len(m.clobTokenIds)) :
                    m.clobTokenIds[i] = token }
    IN  IF hits = { } THEN ""
        ELSE m.outcomes[CHOOSE i \in hits : \A j \in hits : j <= i]

\* priceForOutcome[name] ?? 0.5
priceForOutcome(m, name) ==
    LET hits == { i \in 1..Len(m.outcomes) : m.outcomes[i] = name }
        last == CHOOSE i \in hits : \A j \in hits : j <= i
    IN  IF hits = { } THEN 50
        ELSE IF last <= Len(m.outcomePrices) THEN m.outcomePrices[last] ELSE 50

\* The side and the outcome name of a listing as they would be if the
\* token-to-outcome map were never consulted.
ResolveListing_IndexOnly(m, token, index) ==
    [ position     |-> IF index = 0 THEN "YES" ELSE "NO",
      outcomeName  |-> IF index < Len(m.outcomes) THEN m.outcomes[index + 1]
                       ELSE IF index = 0 THEN "Yes" ELSE "No",
      usedFallback |-> TRUE ]

\* The side and the outcome name of the listing at (0-based) index.
ResolveListing(m, token, index) ==
    LET outcomeName == outcomeForToken(m, token)
    IN  IF outcomeName # ""
        THEN [ position    |-> IF toUpperCase(outcomeName) = "YES" THEN "YES" ELSE "NO",
               outcomeName |-> outcomeName,
               usedFallback |-> FALSE ]
        ELSE [ position    |-> IF index = 0 THEN "YES" ELSE "NO",
               outcomeName |-> IF index < Len(m.outcomes) THEN m.outcomes[index + 1]
                               ELSE IF index = 0 THEN "Yes" ELSE "No",
               usedFallback |-> TRUE ]

\* seenAddresses.has as it would be if no address were ever remembered.
Seen_Never(seenAddresses, proxyWallet) == FALSE

\* seenAddresses.has(rawHolder.proxyWallet): a Set of strings, compared as
\* they are written.
Seen(seenAddresses, proxyWallet) == proxyWallet \in seenAddresses

\* The loop over resp.holders, from the holders and the set built so far.
RECURSIVE MapRawHolders(_, _, _, _)
MapRawHolders(raws, position, price, acc) ==
    IF raws = << >> THEN acc
    ELSE LET rawHolder == Head(raws)
             shareCount == rawHolder.amount
         IN  IF Seen(acc.seenAddresses, rawHolder.proxyWallet)
             THEN MapRawHolders(Tail(raws), position, price, acc)
             ELSE MapRawHolders(Tail(raws), position, price,
                    [ holders |-> Append(acc.holders,
                         [ address             |-> rawHolder.proxyWallet,
                           currentPosition     |-> position,
                           currentPositionSize |-> (shareCount * price) \div 100,
                           shares              |-> shareCount ]),
                      seenAddresses |-> acc.seenAddresses \cup { rawHolder.proxyWallet },
                      usedFallback  |-> acc.usedFallback ])

\* responses.forEach((resp, index) => ...), from listing number k on.
RECURSIVE MapListings(_, _, _, _)
MapListings(resps, m, k, acc) ==
    IF k > Len(resps) THEN acc
    ELSE LET resolved == ResolveListing(m, resps[k].token, k - 1)
             price == priceForOutcome(m, resolved.outcomeName)
             marked == [ acc EXCEPT !.usedFallback = @ \/ resolved.usedFallback ]
         IN  MapListings(resps, m, k + 1,
                 MapRawHolders(resps[k].holders, resolved.position, price, marked))

mapHoldersToPositions(resps, m) ==
    LET final == MapListings(resps, m, 1,
                     [ holders |-> << >>, seenAddresses |-> { },
                       usedFallback |-> FALSE ])
    IN  [ holders |-> final.holders, usedFallback |-> final.usedFallback ]

\* The addresses the listings of a mapper run are drawn from: two wallets,
\* and the first of them written with upper-case letters.
RawAddresses == { Addr(1), Addr(2), AddrMixed(1) }

\* The token of listing number k: the market's two tokens in their order or
\* swapped, and a token the market does not know for any further listing.
TokenOf(order, k) ==
    IF k > 2 THEN "tokX"
    ELSE IF (order = "inOrder") = (k = 1) THEN "tokA" ELSE "tokB"

\* The listings made of the raw holders flat[1..n], cut after the places
\* cuts[1] <= cuts[2] <= ...; the j-th raw holder of a run holds 100 * j shares.
Listings(flat, cuts, order) ==
    LET from(k) == IF k = 1 THEN 1 ELSE cuts[k - 1] + 1
        upto(k) == IF k > Len(cuts) THEN Len(flat) ELSE cuts[k]
    IN  [ k \in 1..(Len(cuts) + 1) |->
            [ token   |-> TokenOf(order, k),
              holders |-> [ j \in 1..(upto(k) - from(k) + 1) |->
                              [ proxyWallet |-> flat[from(k) + j - 1],
                                amount      |-> 100 * (from(k) + j - 1) ] ] ] ]

\* Every HolderResponse list of a mapper run, the empty one included.
ResponseLists ==
    { << >> } \cup
    UNION { UNION { { Listings(flat, [ i \in DOMAIN c |-> c[i] - 1 ], order) :
                        flat \in [ 1..n -> RawAddresses ],
                        order \in { "inOrder", "swapped" } } :
                    c \in { d \in Choices(n + 1, MaxListings - 1) :
                              Len(d) < MaxListings } } :
            n \in 0..MaxRaw }

InitMap ==
    /\ pc = "map"
    /\ now = NowBase
    /\ profile = NoProfile
    /\ scoreLog = << >>
    /\ listings = 0
    /\ holders = << >>
    /\ priceWarn = FALSE
    /\ mapWarn = FALSE
    /\ enriched = << >>
    /\ scoredHolders = << >>
    /\ topHolders = << >>
    /\ locals = NoLocals
    /\ result = NoResult
    /\ warnings = << >>
    /\ market \in Markets
    /\ responses \in ResponseLists
    /\ EnrichIdle
    /\ RouteIdle

\* analyzeMarket calls the mapper on what fetchHolders returned.
CallMapper ==
    /\ pc = "map"
    /\ LET mapped == mapHoldersToPositions(responses, market)
       IN  /\ holders' = mapped.holders
           /\ mapWarn' = mapped.usedFallback
           /\ warnings' = warnings \o (IF mapped.usedFallback
                                        THEN << Warning("IndexFallback", 0, 0) >>
                                        ELSE << >>)
    /\ listings' = Len(responses)
    /\ pc' = "mapped"
    /\ UNCHANGED << now, profile, scoreLog, priceWarn, enriched, scoredHolders,
                    topHolders, locals, result >>
    /\ UNCHANGED << mapVars, enrichVars, routeVars >>

NextMap == CallMapper

SpecMap == InitMap /\ [][NextMap]_vars

(***************************************************************************)
(* Profile fetchers, enrichSingleHolder and enrichHolders                  *)
(***************************************************************************)

\* cache.get(key): << >> for null, << data >> for a hit.  Entries outlive
\* a run (USER_PROFILE is ten minutes), so expiry is left out.
CacheGet(entries, addr) ==
    IF \E e \in entries : e.addr = addr
    THEN << (CHOOSE e \in entries : e.addr = addr).data >>
    ELSE << >>

\* cache.set(key, data, ttl)
CacheSet(entries, addr, data) ==
    { e \in entries : e.addr # addr } \cup { [ addr |-> addr, data |-> data ] }

\* An answer of the Data API to one request: the request fails (any HTTP
\* error, timeout or network error), or it returns a body.
Failed == [ status |-> "fail", body |-> << >> ]

Answered(body) == [ status |-> "ok", body |-> body ]

\* fetchUserLeaderboard past the cache: the value returned (<< >> for null)
\* and what it stores in the cache (<< >> for nothing).
fetchUserLeaderboard(userAddress, answer) ==
    IF answer.status = "fail" THEN [ value |-> << >>, store |-> << >> ]
    ELSE IF answer.body = << >> THEN [ value |-> << >>, store |-> << >> ]
    ELSE LET entry == answer.body[1]
             returnedWallet == toLowerCase(entry.proxyWallet)
         IN  IF returnedWallet # << >> /\ returnedWallet # toLowerCase(userAddress)
             THEN [ value |-> << >>, store |-> << >> ]
             ELSE LET leaderboard == [ pnl           |-> entry.pnl,
                                       volume        |-> entry.vol,
                                       marketsTraded |-> entry.marketsTraded ]
                  IN  [ value |-> << leaderboard >>, store |-> << leaderboard >> ]

\* fetchUserPositions as it would be without its catch: the failure of the
\* request is thrown to the caller.
fetchUserPositions_NoCatch(answer) ==
    IF answer.status = "fail"
    THEN [ value |-> << >>, store |-> << >>, threw |-> TRUE ]
    ELSE [ value |-> answer.body, store |-> << answer.body >>, threw |-> FALSE ]

\* fetchUserPositions past the cache.
fetchUserPositions(answer) ==
    IF answer.status = "fail"
    THEN [ value |-> << >>, store |-> << >>, threw |-> FALSE ]
    ELSE [ value |-> answer.body, store |-> << answer.body >>, threw |-> FALSE ]

\* fetchUserActivity (it has no cache).
fetchUserActivity(answer) ==
    IF answer.status = "fail" THEN << >> ELSE answer.body

RECURSIVE SumCashPnl(_)
SumCashPnl(positions) ==
    IF positions = << >> THEN 0
    ELSE Head(positions).cashPnl + SumCashPnl(Tail(positions))

\* Math.abs(p.initialValue || p.size || 0), summed.
RECURSIVE SumSizes(_)
SumSizes(positions) ==
    IF positions = << >> THEN 0
    ELSE LET p == Head(positions)
             v == IF p.initialValue # 0 THEN p.initialValue ELSE p.size
         IN  (IF v < 0 THEN -v ELSE v) + SumSizes(Tail(positions))

\* Math.abs as it would be if the sign were left as it is.
Abs_Identity(x) == x

\* Math.abs
Abs(x) == IF x < 0 THEN -x ELSE x

PNL_SANITY_LIMIT == 50000000

AVG_SIZE_LIMIT == 10000000

\* One millisecond count is above 1e12 exactly when its hour is above this.
MsThresholdHours == 277777

\* The Date made of activity[0].timestamp: a number of seconds ("s") or of
\* milliseconds ("ms"), a date string ("iso") or a string that is no date
\* ("bad"); the time it stands for is in hours.
ParseTimestamp(ts) ==
    CASE ts.unit = "s"   -> DateAt(ts.hours)
      [] ts.unit = "ms"  -> IF ts.hours > MsThresholdHours THEN DateAt(ts.hours)
                            ELSE DateAt(ts.hours * 1000)
      [] ts.unit = "iso" -> DateAt(ts.hours)
      [] OTHER           -> InvalidDate

\* The body of enrichSingleHolder after its three fetches have settled.
enrichSingleHolder(partial, leaderboard, positions, activity, clock) ==
    LET rawPnl == SumCashPnl(positions)
        totalProfit ==
            IF leaderboard # << >> THEN leaderboard[1].pnl
            ELSE IF Len(positions) > 0
                 THEN (IF Abs(rawPnl) < PNL_SANITY_LIMIT THEN rawPnl ELSE 0)
                 ELSE 0
        totalMarkets ==
            IF leaderboard # << >> /\ leaderboard[1].marketsTraded # 0
            THEN leaderboard[1].marketsTraded
            ELSE Len(positions)
        wins == Len(SelectSeq(positions, LAMBDA p : p.cashPnl > 0))
        winRate == IF Len(positions) > 0 THEN (wins * 100) \div Len(positions) ELSE 0
        avg == IF Len(positions) > 0 THEN SumSizes(positions) \div Len(positions) ELSE 0
        avgPositionSize == IF avg > AVG_SIZE_LIMIT THEN 0 ELSE avg
        parsed == ParseTimestamp(activity[1].timestamp)
        lastTradeDate ==
            IF Len(activity) > 0 /\ activity[1].timestamp.unit # "none"
            THEN (IF parsed.valid THEN parsed ELSE EpochZero)
            ELSE IF Len(positions) > 0 THEN DateAt(clock)
            ELSE EpochZero
    IN  [ address             |-> partial.address,
          totalProfit         |-> totalProfit,
          totalVolume         |-> IF leaderboard # << >> THEN leaderboard[1].volume ELSE 0,
          totalMarkets        |-> totalMarkets,
          winRate             |-> winRate,
          positionsSampled    |-> Len(positions),
          lastTradeDate       |-> lastTradeDate,
          avgPositionSize     |-> avgPositionSize,
          currentPosition     |-> partial.currentPosition,
          currentPositionSize |-> partial.currentPositionSize,
          shares              |-> partial.shares ]

CONCURRENCY == 10

\* enriched, in the order Promise.all gives it: the order of the batch,
\* as it would be if the call that settled first came first.
BatchResults_FirstSettledFirst(settled, first) ==
    IF first = 0 THEN [ j \in 1..Len(settled) |-> settled[j][1] ]
    ELSE << settled[first][1] >>
         \o [ j \in 1..(Len(settled) - 1) |->
                settled[IF j < first THEN j ELSE j + 1][1] ]

\* enriched, in the order Promise.all gives it: the order of the batch.
BatchResults(settled, first) == [ j \in 1..Len(settled) |-> settled[j][1] ]

\* How many wallets a failure run enriches, and how many a batch run does.
MaxEnrich == 2

MaxBatch == 11

\* The partial holder number i of an enrichment run.
EnrichPartial(i) ==
    [ address             |-> Addr(i),
      currentPosition     |-> IF i % 2 = 1 THEN "YES" ELSE "NO",
      currentPositionSize |-> 60 * i,
      shares              |-> 100 * i ]

\* The same address with the letters of its middle part in the other case.
OtherCase(addr) ==
    << addr[1],
       IF addr[2] >= UpperOffset THEN addr[2] - UpperOffset ELSE addr[2] + UpperOffset,
       addr[3] >>

\* A leaderboard entry for the wallet w; << >> is an entry without proxyWallet.
LeaderboardEntry(w) ==
    [ proxyWallet |-> w, pnl |-> 5000, vol |-> 80000, marketsTraded |-> 30 ]

\* A wallet that holds none of the positions of a run.
SomeoneElse == Addr(99)

LeaderboardAnswers(addr) ==
    { Failed,
      Answered(<< >>),
      Answered(<< LeaderboardEntry(addr) >>),
      Answered(<< LeaderboardEntry(OtherCase(addr)) >>),
      Answered(<< LeaderboardEntry(SomeoneElse) >>),
      Answered(<< LeaderboardEntry(<< >>) >>) }

\* Two positions: one won, one lost.
SamplePositions ==
    << [ cashPnl |-> 400, initialValue |-> 200, size |-> 0 ],
       [ cashPnl |-> -100, initialValue |-> 0, size |-> 300 ] >>

PositionsAnswers == { Failed, Answered(<< >>), Answered(SamplePositions) }

\* One trade, a day ago, stamped in seconds.
SampleActivity == << [ timestamp |-> [ unit |-> "s", hours |-> NowBase - HoursPerDay ] ] >>

ActivityAnswers == { Failed, Answered(<< >>), Answered(SampleActivity) }

\* Every combination of answers for one wallet.
RichAnswers(addr) ==
    { [ lb |-> l, pos |-> p, act |-> a ] :
        l \in LeaderboardAnswers(addr), p \in PositionsAnswers, a \in ActivityAnswers }

\* Three combinations for the other wallets of a run: all answered, all
\* failed, and a mix.
NeighbourAnswers(k, addr) ==
    CASE k = 1 -> [ lb  |-> Answered(<< LeaderboardEntry(addr) >>),
                    pos |-> Answered(SamplePositions),
                    act |-> Answered(SampleActivity) ]
      [] k = 2 -> [ lb |-> Failed, pos |-> Failed, act |-> Failed ]
      [] OTHER -> [ lb |-> Answered(<< >>), pos |-> Answered(SamplePositions),
                    act |-> Failed ]

\* An entry an earlier analysis left in the cache for the first wallet.
WarmCache ==
    [ leaderboard |-> { [ addr |-> Addr(1),
                          data |-> [ pnl |-> 7000, volume |-> 1000,
                                     marketsTraded |-> 5 ] ] },
      positions   |-> { },
      event       |-> { },
      holders     |-> { } ]

\* The variables an enrichment run starts from, the answers left aside.
EnrichStart(n) ==
    /\ pc = "enrichHolders"
    /\ now = NowBase
    /\ profile = NoProfile
    /\ scoreLog = << >>
    /\ listings = 2
    /\ holders = [ i \in 1..n |-> EnrichPartial(i) ]
    /\ priceWarn = FALSE
    /\ mapWarn = FALSE
    /\ enriched = << >>
    /\ scoredHolders = << >>
    /\ topHolders = << >>
    /\ locals = NoLocals
    /\ result = NoResult
    /\ warnings = << >>
    /\ MapIdle
    /\ RouteIdle
    /\ batch = NoBatch
    /\ fetches = 0

\* Failure runs: one wallet has any combination of answers, the others one
\* of the three NeighbourAnswers.
InitEnrich ==
    \E n \in 1..MaxEnrich, r \in 1..MaxEnrich :
        /\ r <= n
        /\ EnrichStart(n)
        /\ \E rich \in RichAnswers(Addr(r)), ks \in [ 1..n -> 1..3 ] :
             upstream = [ i \in 1..n |->
                            IF i = r THEN rich ELSE NeighbourAnswers(ks[i], Addr(i)) ]
        /\ cache \in { EmptyCache, WarmCache }

\* Batch runs: wallet i has the NeighbourAnswers number i + shift, cyclically.
InitBatch ==
    \E n \in 1..MaxBatch, shift \in 0..2 :
        /\ EnrichStart(n)
        /\ upstream = [ i \in 1..n |-> NeighbourAnswers(((i + shift) % 3) + 1, Addr(i)) ]
        /\ cache = EmptyCache

\* partialHolders.slice(i, i + CONCURRENCY), as it would be if the loop
\* handed every remaining wallet to Promise.all at once.
BatchSize_All(remaining) == remaining

\* The length of partialHolders.slice(i, i + CONCURRENCY) when `remaining`
\* wallets stand at or after i.
BatchSize(remaining) == Min(CONCURRENCY, remaining)

\* for (i ...; i += CONCURRENCY): the next batch is sliced and each of its
\* enrichSingleHolder calls runs to its await, its fetchers having looked
\* into the cache and sent the requests the cache did not answer.
StartBatch ==
    /\ pc = "enrichHolders"
    /\ batch.phase = "idle"
    /\ batch.start < Len(holders)
    /\ LET size == BatchSize(Len(holders) - batch.start)
           plans == [ j \in 1..size |->
                        [ lb  |-> CacheGet(cache.leaderboard,
                                           holders[batch.start + j].address),
                          pos |-> CacheGet(cache.positions,
                                           holders[batch.start + j].address) ] ]
           hits == Cardinality({ j \in 1..size : plans[j].lb # << >> })
                   + Cardinality({ j \in 1..size : plans[j].pos # << >> })
       IN  /\ batch' = [ phase |-> "running", start |-> batch.start,
                         inflight |-> 1..size, plans |-> plans,
                         settled |-> [ j \in 1..size |-> << >> ], first |-> 0,
                         firsts |-> batch.firsts ]
           /\ fetches' = fetches + 3 * size - hits
    /\ UNCHANGED << pc, now, profile, scoreLog, holders, priceWarn, mapWarn,
                    listings, enriched, scoredHolders, topHolders, locals,
                    result, warnings, mapVars, routeVars, upstream, cache >>

\* The three fetches of the j-th call of the batch have settled and the call
\* returns its Holder.
SettleWallet(j) ==
    /\ pc = "enrichHolders"
    /\ batch.phase = "running"
    /\ j \in batch.inflight
    /\ LET i == batch.start + j
           partial == holders[i]
           plan == batch.plans[j]
           lb == IF plan.lb # << >>
                 THEN [ value |-> plan.lb, store |-> << >> ]
                 ELSE fetchUserLeaderboard(partial.address, upstream[i].lb)
           pos == IF plan.pos # << >>
                  THEN [ value |-> plan.pos[1], store |-> << >>, threw |-> FALSE ]
                  ELSE fetchUserPositions(upstream[i].pos)
           act == fetchUserActivity(upstream[i].act)
       IN  IF pos.threw
           THEN /\ pc' = "error"
                /\ UNCHANGED << batch, cache >>
           ELSE /\ pc' = pc
                /\ cache' =
                     [ cache EXCEPT
                         !.leaderboard =
                             IF lb.store # << >>
                             THEN CacheSet(@, partial.address, lb.store[1])
                             ELSE @,
                         !.positions =
                             IF pos.store # << >>
                             THEN CacheSet(@, partial.address, pos.store[1])
                             ELSE @ ]
                /\ batch' =
                     [ batch EXCEPT
                         !.inflight = @ \ { j },
                         !.settled[j] = << enrichSingleHolder(partial, lb.value,
                                               pos.value, act, now) >>,
                         !.first = IF @ = 0 THEN j ELSE @ ]
    /\ UNCHANGED << now, profile, scoreLog, holders, priceWarn, mapWarn,
                    listings, enriched, scoredHolders, topHolders, locals,
                    result, warnings, mapVars, routeVars, upstream, fetches >>

\* Promise.all resolves: the Holders are pushed to results in its order.
CollectBatch ==
    /\ pc = "enrichHolders"
    /\ batch.phase = "running"
    /\ batch.inflight = { }
    /\ enriched' = enriched \o BatchResults(batch.settled, batch.first)
    /\ batch' = [ NoBatch EXCEPT !.start = batch.start + CONCURRENCY,
                                 !.firsts = Append(batch.firsts, batch.first) ]
    /\ UNCHANGED << pc, now, profile, scoreLog, holders, priceWarn, mapWarn,
                    listings, scoredHolders, topHolders, locals, result,
                    warnings, mapVars, routeVars, upstream, cache, fetches >>

\* The loop is over: enrichHolders returns and its warning is pushed.
ReturnEnriched ==
    /\ pc = "enrichHolders"
    /\ batch.phase = "idle"
    /\ batch.start >= Len(holders)
    /\ warnings' = warnings \o EnrichmentWarnings(enriched)
    /\ pc' = "enriched"
    /\ UNCHANGED << now, profile, scoreLog, holders, priceWarn, mapWarn,
                    listings, enriched, scoredHolders, topHolders, locals,
                    result, mapVars, routeVars, enrichVars >>

NextEnrich ==
    \/ StartBatch
    \/ \E j \in 1..CONCURRENCY : SettleWallet(j)
    \/ CollectBatch
    \/ ReturnEnriched

SpecEnrich == InitEnrich /\ [][NextEnrich]_vars

SpecBatch == InitBatch /\ [][NextEnrich]_vars

\* Profile runs: one wallet, with positions whose PnL sum stands at and
\* around the sanity limit, and with every kind of activity[0].timestamp.

\* One position with the given cashPnl.
PositionOf(cashPnl) == [ cashPnl |-> cashPnl, initialValue |-> 100, size |-> 0 ]

\* What /positions answers in a profile run.
ProfilePositions ==
    PositionsAnswers \cup
    { Answered(<< PositionOf(PNL_SANITY_LIMIT - 1) >>),
      Answered(<< PositionOf(PNL_SANITY_LIMIT) >>),
      Answered(<< PositionOf(PNL_SANITY_LIMIT + 1) >>),
      Answered(<< PositionOf(-PNL_SANITY_LIMIT) >>),
      Answered(<< PositionOf(-PNL_SANITY_LIMIT - 1) >>),
      Answered(<< PositionOf(PNL_SANITY_LIMIT - 400), PositionOf(400) >>) }

\* One activity record whose timestamp is of the given kind: a number of
\* seconds or of milliseconds, a date string, a string that is no date, or
\* no timestamp at all.
ActivityOf(unit, hours) == [ timestamp |-> [ unit |-> unit, hours |-> hours ] ]

\* What /activity answers in a profile run; a list is sorted as requested,
\* most recent first.
ProfileActivity ==
    ActivityAnswers \cup
    { Answered(<< ActivityOf("ms", NowBase - 2 * HoursPerDay) >>),
      Answered(<< ActivityOf("iso", NowBase - 3 * HoursPerDay) >>),
      Answered(<< ActivityOf("bad", 0) >>),
      Answered(<< ActivityOf("none", 0) >>),
      Answered(<< ActivityOf("s", NowBase - HoursPerDay),
                  ActivityOf("s", NowBase - 40 * HoursPerDay) >>) }

InitProfile ==
    /\ EnrichStart(1)
    /\ \E l \in LeaderboardAnswers(Addr(1)), p \in ProfilePositions, a \in ProfileActivity :
         upstream = << [ lb |-> l, pos |-> p, act |-> a ] >>
    /\ cache = EmptyCache

SpecProfile == InitProfile /\ [][NextEnrich]_vars

(***************************************************************************)
(* POST /api/analyze with analyzeMarket behind it, and the page that calls *)
(* it                                                                      *)
(***************************************************************************)

\* An error message is the sequence of its words and punctuation marks.
\* String.prototype.includes: the phrase stands somewhere in the message.
Includes(message, phrase) ==
    \E k \in 0..(Len(message) - Len(phrase)) :
        SubSeq(message, k + 1, k + Len(phrase)) = phrase

\* url-parser: the URL does not contain polymarket.com.
MsgInvalidUrl ==
    << "Invalid", "URL", ":", "Please", "enter", "a", "valid", "Polymarket", "URL" >>

\* url-parser: the URL has no /event/{slug}.
MsgNoSlug ==
    << "Could", "not", "extract", "event", "slug", "from", "URL", ".",
       "Expected", "format", ":", "https://polymarket.com/event/{slug}" >>

\* AxiosError.message for a response with an error status, and for a timeout.
AxiosStatus(code) == << "Request", "failed", "with", "status", "code", code >>

AxiosTimeout == << "timeout", "of", "10000ms", "exceeded" >>

MsgEventNotFound ==
    << "Event", "not", "found", ":", "\"", "some-slug", "\"", ".",
       "Please", "check", "the", "URL", "." >>

MsgEventFailed(cause) == << "Failed", "to", "fetch", "event", "data", ":" >> \o cause

MsgNoMarkets == << "No", "markets", "found", "for", "this", "event", "." >>

MsgRateLimited ==
    << "Rate", "limited", "by", "Polymarket", "API", ".", "Please", "wait",
       "1", "minute", "and", "try", "again", "." >>

MsgHoldersFailed(cause) == << "Failed", "to", "fetch", "holders", ":" >> \o cause

\* The status POST's catch gives to a message.
StatusFor(message) ==
    IF Includes(message, << "not", "found" >>) THEN 404
    ELSE IF Includes(message, << "Rate", "limited" >>) THEN 429
    ELSE IF Includes(message, << "Invalid" >>) THEN 400
    ELSE 500

\* The url of a request: no string, a string without polymarket.com, a
\* polymarket.com address without /event/{slug}, an event address.
UrlKinds == { "missing", "foreign", "noEventPath", "event" }

\* What the Gamma API answers for the event: an error status, no answer in
\* ten seconds, an event without markets, an event with its markets.
EventAnswers == { "404", "429", "500", "timeout", "okNoMarkets", "ok" }

\* What the Data API answers for the holders: an error status, an empty
\* list, the listings.
ListingAnswers == { "429", "500", "okEmpty", "ok" }

\* The markets of a route run: prices 0.6 / 0.4, and 0.5 / 0.5.
RouteMarkets ==
    { m \in Markets : m.clobTokenIds # << >> /\ m.outcomes[1] # "No"
                      /\ Len(m.outcomePrices) = 2 }

Requests ==
    [ url : UrlKinds, event : EventAnswers, listing : ListingAnswers,
      market : RouteMarkets ]

\* The listings of a route run: two wallets on the first token, one on the
\* second.
RouteListings == Listings(<< Addr(1), Addr(2), Addr(3) >>, << 2 >>, "inOrder")

InitRoute ==
    /\ pc = "POST"
    /\ now = NowBase
    /\ profile = NoProfile
    /\ scoreLog = << >>
    /\ listings = 0
    /\ holders = << >>
    /\ priceWarn = FALSE
    /\ mapWarn = FALSE
    /\ enriched = << >>
    /\ scoredHolders = << >>
    /\ topHolders = << >>
    /\ locals = NoLocals
    /\ result = NoResult
    /\ warnings = << >>
    /\ MapIdle
    /\ \E shift \in 0..2 :
         upstream = [ i \in 1..Len(RouteListings[1].holders) + Len(RouteListings[2].holders) |->
                        NeighbourAnswers(((i + shift) % 3) + 1, Addr(i)) ]
    /\ batch = NoBatch
    /\ cache = EmptyCache
    /\ fetches = 0
    /\ request \in Requests
    /\ client = "waiting"
    /\ response = NoResponse

\* POST returns NextResponse.json({ error: message }, { status }).
Respond(status, message) ==
    /\ response' = [ status |-> status, error |-> message ]
    /\ pc' = "responded"

\* POST's catch: the status is read off the message.
Catch(message) == Respond(StatusFor(message), message)

\* POST reads the body and looks at url.
ReceiveRequest ==
    /\ pc = "POST"
    /\ IF request.url = "missing"
       THEN Respond(400, << "Missing", "or", "invalid", "\"", "url", "\"", "field", "." >>)
       ELSE IF request.url = "foreign"
            THEN Respond(400, << "Invalid", "URL", ".", "Please", "enter", "a",
                                 "valid", "Polymarket", "URL" >>)
            ELSE /\ pc' = "extractEventSlug"
                 /\ UNCHANGED response
    /\ UNCHANGED << now, profile, scoreLog, holders, priceWarn, mapWarn,
                    listings, enriched, scoredHolders, topHolders, locals,
                    result, warnings, mapVars, enrichVars, request, client >>

\* analyzeMarket begins: extractEventSlug and extractMarketSlug.
ParseUrl ==
    /\ pc = "extractEventSlug"
    /\ IF request.url = "noEventPath"
       THEN Catch(MsgNoSlug)
       ELSE /\ pc' = "fetchEventBySlug"
            /\ UNCHANGED response
    /\ UNCHANGED << now, profile, scoreLog, holders, priceWarn, mapWarn,
                    listings, enriched, scoredHolders, topHolders, locals,
                    result, warnings, mapVars, enrichVars, request, client >>

\* fetchEventBySlug, the check on event.markets, parseMarket and the price
\* warning.  A run begins with no event in the cache, so the request is sent.
FetchEvent ==
    /\ pc = "fetchEventBySlug"
    /\ fetches' = fetches + 1
    /\ CASE request.event = "404" ->
              /\ Catch(MsgEventNotFound)
              /\ UNCHANGED << cache, market, priceWarn, warnings >>
         [] request.event \in { "429", "500" } ->
              /\ Catch(MsgEventFailed(AxiosStatus(request.event)))
              /\ UNCHANGED << cache, market, priceWarn, warnings >>
         [] request.event = "timeout" ->
              /\ Catch(MsgEventFailed(AxiosTimeout))
              /\ UNCHANGED << cache, market, priceWarn, warnings >>
         [] request.event = "okNoMarkets" ->
              /\ cache' = [ cache EXCEPT !.event = @ \cup { "some-slug" } ]
              /\ Catch(MsgNoMarkets)
              /\ UNCHANGED << market, priceWarn, warnings >>
         [] OTHER ->
              /\ cache' = [ cache EXCEPT !.event = @ \cup { "some-slug" } ]
              /\ market' = request.market
              /\ priceWarn' = (request.market.outcomePrices = << 50, 50 >>)
              /\ warnings' = IF request.market.outcomePrices = << 50, 50 >>
                             THEN Append(warnings, Warning("Prices5050", 0, 0))
                             ELSE warnings
              /\ pc' = "fetchHolders"
              /\ UNCHANGED response
    /\ UNCHANGED << now, profile, scoreLog, holders, mapWarn, listings,
                    enriched, scoredHolders, topHolders, locals, result,
                    responses, upstream, batch, request, client >>

\* fetchHolders, the two early returns and the mapper, up to the call of
\* enrichHolders.  A run begins with no holder list in the cache.
FetchListings ==
    /\ pc = "fetchHolders"
    /\ fetches' = fetches + 1
    /\ CASE request.listing = "429" ->
              /\ Catch(MsgRateLimited)
              /\ UNCHANGED << cache, responses, listings, holders, mapWarn,
                              warnings, result >>
         [] request.listing = "500" ->
              /\ Catch(MsgHoldersFailed(AxiosStatus("500")))
              /\ UNCHANGED << cache, responses, listings, holders, mapWarn,
                              warnings, result >>
         [] OTHER ->
              LET answer == IF request.listing = "okEmpty" THEN << >> ELSE RouteListings
                  mapped == mapHoldersToPositions(answer, market)
                  mappingWarnings == IF mapped.usedFallback
                                     THEN << Warning("IndexFallback", 0, 0) >>
                                     ELSE << >>
              IN  /\ cache' = [ cache EXCEPT !.holders = @ \cup { "conditionId" } ]
                  /\ responses' = answer
                  /\ listings' = Len(answer)
                  /\ IF NoListings(Len(answer))
                     THEN /\ warnings' = << Warning("NoHolderData", 0, 0) >>
                          /\ result' = Inconclusive(Reasoning("NoHolderData", 0, 0, 0, -1, ""))
                          /\ pc' = "done"
                          /\ UNCHANGED << holders, mapWarn >>
                     ELSE /\ holders' = mapped.holders
                          /\ mapWarn' = mapped.usedFallback
                          /\ warnings' = warnings \o mappingWarnings
                          /\ IF mapped.holders = << >>
                             THEN /\ result' = Inconclusive(
                                        Reasoning("NoHoldersFound", 0, 0, 0, -1, ""))
                                  /\ pc' = "done"
                             ELSE /\ pc' = "enrichHolders"
                                  /\ UNCHANGED result
                  /\ UNCHANGED response
    /\ UNCHANGED << now, profile, scoreLog, priceWarn, enriched, scoredHolders,
                    topHolders, locals, market, upstream, batch, request, client >>

\* enrichHolders has returned: the rest of analyzeMarket.
FinishRoute ==
    /\ pc = "enriched"
    /\ FinishFrom(enriched, warnings)

\* analyzeMarket has returned: POST answers with the result.
RespondOk ==
    /\ pc = "done"
    /\ Respond(200, << >>)
    /\ UNCHANGED << now, profile, scoreLog, holders, priceWarn, mapWarn,
                    listings, enriched, scoredHolders, topHolders, locals,
                    result, warnings, mapVars, enrichVars, request, client >>

\* The page's 25 second timer fires before the response has come: the
\* controller aborts the page's fetch, and the page shows the timeout error.
ClientTimeout ==
    /\ client = "waiting"
    /\ client' = "timedOut"
    /\ UNCHANGED << pc, now, profile, scoreLog, holders, priceWarn, mapWarn,
                    listings, enriched, scoredHolders, topHolders, locals,
                    result, warnings, mapVars, enrichVars, request, response >>

\* The response reaches the page, which shows the result or the error.
Deliver ==
    /\ pc = "responded"
    /\ client = "waiting"
    /\ client' = IF response.status = 200 THEN "shown" ELSE "failed"
    /\ UNCHANGED << pc, now, profile, scoreLog, holders, priceWarn, mapWarn,
                    listings, enriched, scoredHolders, topHolders, locals,
                    result, warnings, mapVars, enrichVars, request, response >>

NextRoute ==
    \/ ReceiveRequest
    \/ ParseUrl
    \/ FetchEvent
    \/ FetchListings
    \/ StartBatch
    \/ \E j \in 1..CONCURRENCY : SettleWallet(j)
    \/ CollectBatch
    \/ ReturnEnriched
    \/ FinishRoute
    \/ RespondOk
    \/ ClientTimeout
    \/ Deliver

SpecRoute == InitRoute /\ [][NextRoute]_vars

\* Blank runs: analyzeMarket from the call of enrichHolders on, for wallets
\* whose three sources all fail, all return nothing, or all answer.

\* How many wallets a blank run enriches.
MaxBlank == 4

\* The partial holder number i of a blank run, in one of three line-ups:
\* all on YES with growing sizes; large YES and small NO positions in turn;
\* all on NO, every other one below the position floor.
BlankPartial(lineup, i) ==
    [ address             |-> Addr(i),
      currentPosition     |-> CASE lineup = 1 -> "YES"
                                [] lineup = 2 -> (IF i % 2 = 1 THEN "YES" ELSE "NO")
                                [] OTHER      -> "NO",
      currentPositionSize |-> CASE lineup = 1 -> 200 * i
                                [] lineup = 2 -> (IF i % 2 = 1 THEN 5000 ELSE 150)
                                [] OTHER      -> (IF i % 2 = 1 THEN 50 ELSE 300),
      shares              |-> 1000 * i ]

\* The answers for one wallet: every request fails, every request returns an
\* empty list, or every request returns data.
BlankAnswers(k, addr) ==
    CASE k = 1 -> [ lb |-> Failed, pos |-> Failed, act |-> Failed ]
      [] k = 2 -> [ lb |-> Answered(<< >>), pos |-> Answered(<< >>),
                    act |-> Answered(<< >>) ]
      [] OTHER -> NeighbourAnswers(1, addr)

InitBlank ==
    /\ pc = "enrichHolders"
    /\ now = NowBase
    /\ profile = NoProfile
    /\ scoreLog = << >>
    /\ listings = 2
    /\ \E n \in 1..MaxBlank, lineup \in 1..3 :
         /\ holders = [ i \in 1..n |-> BlankPartial(lineup, i) ]
         /\ \E ks \in [ 1..n -> 1..3 ] :
              upstream = [ i \in 1..n |-> BlankAnswers(ks[i], Addr(i)) ]
    /\ priceWarn = FALSE
    /\ mapWarn = FALSE
    /\ enriched = << >>
    /\ scoredHolders = << >>
    /\ topHolders = << >>
    /\ locals = NoLocals
    /\ result = NoResult
    /\ warnings = << >>
    /\ MapIdle
    /\ RouteIdle
    /\ batch = NoBatch
    /\ cache = EmptyCache
    /\ fetches = 0

NextBlank ==
    \/ StartBatch
    \/ \E j \in 1..CONCURRENCY : SettleWallet(j)
    \/ CollectBatch
    \/ ReturnEnriched
    \/ FinishRoute

SpecBlank == InitBlank /\ [][NextBlank]_vars

(***************************************************************************)
(* MemoryCache and the four fetchers that go through it                    *)
(***************************************************************************)

\* In cache runs the clock counts minutes from the start of the run, and an
\* entry of the cache is [ addr, data, expiresAt ], addr being its key.

\* CACHE_TTL, in minutes.
TTL_MARKET_DATA == 30

TTL_HOLDER_DATA == 10

TTL_USER_PROFILE == 10

\* The minutes between two observed moments of a cache run, how many times
\* the clock advances, and how many requests a run sends upstream.
CacheTick == 10

MaxCacheTicks == 4

MaxQueries == 3

\* cache.get(key): the value (<< >> for null) and the store it leaves; an
\* entry found after its expiresAt is deleted.
MemoryCacheGet(entries, key, clock) ==
    LET live == { e \in entries : e.addr = key /\ ~(clock > e.expiresAt) }
    IN  [ value   |-> IF live # { } THEN << (CHOOSE e \in live : TRUE).data >> ELSE << >>,
          entries |-> { e \in entries : e.addr # key \/ ~(clock > e.expiresAt) } ]

\* cache.set(key, data, ttlMs)
MemoryCacheSet(entries, key, data, ttl, clock) ==
    { e \in entries : e.addr # key }
        \cup { [ addr |-> key, data |-> data, expiresAt |-> clock + ttl ] }

\* fetchEventBySlug past the cache: a failure is thrown on.
fetchEventBySlug(answer) ==
    IF answer.status = "fail"
    THEN [ value |-> << >>, store |-> << >>, threw |-> TRUE ]
    ELSE [ value |-> answer.body, store |-> << answer.body >>, threw |-> FALSE ]

\* fetchHolders as it would be if a failure were answered with an empty
\* list that is put into the cache.
fetchHolders_CacheFailure(answer) ==
    IF answer.status = "fail"
    THEN [ value |-> << >>, store |-> << << >> >>, threw |-> FALSE ]
    ELSE [ value |-> answer.body, store |-> << answer.body >>, threw |-> FALSE ]

\* fetchHolders past the cache: a failure is thrown on.
fetchHolders(answer) ==
    IF answer.status = "fail"
    THEN [ value |-> << >>, store |-> << >>, threw |-> TRUE ]
    ELSE [ value |-> answer.body, store |-> << answer.body >>, threw |-> FALSE ]

\* The one key of each kind a cache run asks for.
CacheKey == Addr(1)

\* No request was sent: the cache answered.
NoAnswer == [ status |-> "none", body |-> << >> ]

InitCache ==
    /\ pc = "cache"
    /\ now = 0
    /\ profile = NoProfile
    /\ scoreLog = << >>
    /\ listings = 0
    /\ holders = << >>
    /\ priceWarn = FALSE
    /\ mapWarn = FALSE
    /\ enriched = << >>
    /\ scoredHolders = << >>
    /\ topHolders = << >>
    /\ locals = NoLocals
    /\ result = NoResult
    /\ warnings = << >>
    /\ MapIdle
    /\ EnrichIdle
    /\ request = [ kind |-> "none", answer |-> NoAnswer ]
    /\ client = "waiting"
    /\ response = [ value |-> << >>, queried |-> FALSE, threw |-> FALSE ]

\* One call of a fetcher of the given kind; response.value is the data the
\* call took from the cache or put into it (<< >> when neither), queried
\* tells whether it sent a request: `if (cached) return cached`
\* (a stored object or array is truthy, the empty array included), otherwise
\* the request, whose answer is `answer` and what the fetcher makes of it
\* `fetched`.
CachedCall(kind, ttl, answer, fetched) ==
    LET got == MemoryCacheGet(cache[kind], CacheKey, now)
    IN  /\ IF got.value # << >>
           THEN /\ cache' = [ cache EXCEPT ![kind] = got.entries ]
                /\ request' = [ kind |-> kind, answer |-> NoAnswer ]
                /\ response' = [ value |-> got.value, queried |-> FALSE,
                                 threw |-> FALSE ]
                /\ UNCHANGED fetches
           ELSE /\ fetches < MaxQueries
                /\ cache' = [ cache EXCEPT ![kind] =
                                IF fetched.store # << >>
                                THEN MemoryCacheSet(got.entries, CacheKey,
                                                    fetched.store[1], ttl, now)
                                ELSE got.entries ]
                /\ request' = [ kind |-> kind, answer |-> answer ]
                /\ response' = [ value |-> fetched.store, queried |-> TRUE,
                                 threw |-> fetched.threw ]
                /\ fetches' = fetches + 1
        /\ UNCHANGED << pc, now, profile, scoreLog, holders, priceWarn, mapWarn,
                        listings, enriched, scoredHolders, topHolders, locals,
                        result, warnings, mapVars, upstream, batch, client >>

CallEvent ==
    /\ pc = "cache"
    /\ \E answer \in { Failed, Answered([ markets |-> 1 ]) } :
         CachedCall("event", TTL_MARKET_DATA, answer, fetchEventBySlug(answer))

CallHolders ==
    /\ pc = "cache"
    /\ \E answer \in { Failed, Answered(<< >>),
                       Answered(<< [ token |-> "tokA", holders |-> << >> ] >>) } :
         CachedCall("holders", TTL_HOLDER_DATA, answer, fetchHolders(answer))

CallPositions ==
    /\ pc = "cache"
    /\ \E answer \in PositionsAnswers :
         CachedCall("positions", TTL_USER_PROFILE, answer, fetchUserPositions(answer))

CallLeaderboard ==
    /\ pc = "cache"
    /\ \E answer \in LeaderboardAnswers(CacheKey) :
         LET r == fetchUserLeaderboard(CacheKey, answer)
         IN  CachedCall("leaderboard", TTL_USER_PROFILE, answer,
                        [ value |-> r.value, store |-> r.store, threw |-> FALSE ])

\* Time passes between two calls.
TickCache ==
    /\ pc = "cache"
    /\ now < MaxCacheTicks * CacheTick
    /\ now' = now + CacheTick
    /\ UNCHANGED << pc, profile, scoreLog, holders, priceWarn, mapWarn,
                    listings, enriched, scoredHolders, topHolders, locals,
                    result, warnings, extVars >>

NextCache ==
    \/ CallEvent
    \/ CallHolders
    \/ CallPositions
    \/ CallLeaderboard
    \/ TickCache

SpecCache == InitCache /\ [][NextCache]_vars

(***************************************************************************)
(* Claims                                                                  *)
(***************************************************************************)

\* The credibility-weighted value of a ranked holder, from its own fields.
C_Weight(h) == h.currentPositionSize * h.credibilityScore.total

RECURSIVE C_SumWeights(_, _)
C_SumWeights(list, side) ==
    IF list = << >> THEN 0
    ELSE (IF Head(list).currentPosition \in side THEN C_Weight(Head(list)) ELSE 0)
         + C_SumWeights(Tail(list), side)

C_Yes == C_SumWeights(topHolders, { "YES" })

C_Total == C_SumWeights(topHolders, { "YES", "NO" })

C_Dom == Max(C_Yes, C_Total - C_Yes)

C_Count(side) ==
    Cardinality({ i \in DOMAIN topHolders : topHolders[i].currentPosition = side })

\* generateTradingSignal computed a share: at least 3 holders, total not 0.
C_Decided == result # NoResult /\ Len(topHolders) >= 3 /\ C_Total # 0

C_WhaleFlag == result.data[1].whaleDetected

C_ShareYes == 20 * C_Yes >= 13 * C_Total

C_ShareNo == 20 * C_Yes <= 7 * C_Total

\* C1: whenever generateTradingSignal computes a share, the signal is BUY YES
\* exactly when yesShare >= 0.65 and the final confidence is >= 5, BUY NO
\* exactly when yesShare <= 0.35 and the final confidence is >= 5, and
\* INCONCLUSIVE in every other case.
C1_SignalDecision ==
    C_Decided =>
        /\ (result.signal = "BUY YES") <=> (C_ShareYes /\ result.confidence >= 5)
        /\ (result.signal = "BUY NO") <=> (C_ShareNo /\ result.confidence >= 5)
        /\ (result.signal = "INCONCLUSIVE")
             <=> ~((C_ShareYes \/ C_ShareNo) /\ result.confidence >= 5)

\* A qualifying share with final confidence 4 returned INCONCLUSIVE.
C1_Witness ==
    /\ C_Decided
    /\ C_ShareYes
    /\ result.confidence = 4
    /\ result.signal = "INCONCLUSIVE"

C_QualifiedCount ==
    Cardinality({ i \in DOMAIN enriched :
                    \/ enriched[i].currentPositionSize >= 100
                    \/ enriched[i].totalProfit >= 1000 })

C_FilterReached == pc = "done" /\ enriched # << >>

\* C2: when analyzeMarket reaches the filter stage and fewer than 3 wallets
\* qualify, or at least 3 qualify with a combined weighted value of 0, it
\* returns INCONCLUSIVE with confidence 0 and no SignalData, and with zero
\* qualifying wallets the reasoning cites the number of wallets examined; no
\* run that reached enrichment ends in an error.
C2_InsufficientData ==
    /\ pc = "error" => (enriched = << >> /\ result = NoResult)
    /\ C_FilterReached =>
         /\ result # NoResult
         /\ (C_QualifiedCount < 3 \/ C_SumWeights(scoredHolders, { "YES", "NO" }) = 0)
              => /\ result.signal = "INCONCLUSIVE"
                 /\ result.confidence = 0
                 /\ result.data = << >>
         /\ C_QualifiedCount = 0
              => /\ result.reasoning.head = "NoQualified"
                 /\ result.reasoning.count = Len(enriched)

\* Three wallets qualified, their weighted total was 0, and the call
\* returned INCONCLUSIVE.
C2_Witness ==
    /\ C_FilterReached
    /\ C_QualifiedCount >= 3
    /\ C_SumWeights(scoredHolders, { "YES", "NO" }) = 0
    /\ result.signal = "INCONCLUSIVE"
    /\ result.confidence = 0

\* C3: whaleDetected is true exactly when some ranked wallet's weighted value
\* is strictly greater than 40% of the weighted total, whatever its side;
\* when it is true the base confidence is reduced by 3 and floored at 1, and
\* when it is false the base confidence is left as it is.
C3_WhaleDetection ==
    C_Decided =>
        /\ C_WhaleFlag <=> (\E i \in DOMAIN topHolders :
                              5 * C_Weight(topHolders[i]) > 2 * C_Total)
        /\ locals.penalised = IF C_WhaleFlag THEN Max(1, locals.base - 3)
                              ELSE locals.base

\* A wallet held exactly 40% of the weighted total and no whale was flagged.
C3_Witness ==
    /\ C_Decided
    /\ \E i \in DOMAIN topHolders : 5 * C_Weight(topHolders[i]) = 2 * C_Total
    /\ ~C_WhaleFlag
    /\ locals.penalised = locals.base

\* C4: the base confidence is 9 when dominance > 0.80, 7 when
\* 0.70 < dominance <= 0.80, 5 when 0.60 < dominance <= 0.70 and 3 when
\* dominance <= 0.60, dominance being max(yesShare, 1 - yesShare).
C4_BaseConfidence ==
    C_Decided =>
        /\ (locals.base = 9) <=> (5 * C_Dom > 4 * C_Total)
        /\ (locals.base = 7) <=> (10 * C_Dom > 7 * C_Total /\ 5 * C_Dom <= 4 * C_Total)
        /\ (locals.base = 5) <=> (5 * C_Dom > 3 * C_Total /\ 10 * C_Dom <= 7 * C_Total)
        /\ (locals.base = 3) <=> (5 * C_Dom <= 3 * C_Total)

\* Dominance was exactly 0.80 and the base confidence was 7.
C4_Witness ==
    /\ C_Decided
    /\ 5 * C_Dom = 4 * C_Total
    /\ locals.base = 7

\* How many ranked wallets are on `side` with a weighted value of w dollars.
C_Has(side, w) ==
    Cardinality({ i \in DOMAIN topHolders :
                    /\ topHolders[i].currentPosition = side
                    /\ C_Weight(topHolders[i]) = w * 10000 })

\* The five wallets of the example: 400, 200, 150 on YES and 150, 100 on NO.
C5_Example ==
    /\ result # NoResult
    /\ Len(topHolders) = 5
    /\ C_Has("YES", 400) = 1
    /\ C_Has("YES", 200) = 1
    /\ C_Has("YES", 150) = 1
    /\ C_Has("NO", 150) = 1
    /\ C_Has("NO", 100) = 1

\* C5 as stated: on the example, weighted-YES is 750, weighted-NO 250,
\* yesShare and dominance 0.75, the base confidence 5, and no whale.
C5_Original ==
    C5_Example =>
        /\ locals.yesValue = 750 * 10000
        /\ locals.noValue = 250 * 10000
        /\ 4 * locals.yesValue = 3 * locals.totalValue
        /\ 4 * locals.domNum = 3 * locals.totalValue
        /\ locals.base = 5
        /\ ~C_WhaleFlag

\* C5 as amended: on the example, weighted-YES is 750, weighted-NO 250,
\* yesShare and dominance 0.75, the base confidence 7 (the bracket above
\* 0.70), and no whale is flagged.
C5_Amended ==
    C5_Example =>
        /\ locals.yesValue = 750 * 10000
        /\ locals.noValue = 250 * 10000
        /\ 4 * locals.yesValue = 3 * locals.totalValue
        /\ 4 * locals.domNum = 3 * locals.totalValue
        /\ locals.base = 7
        /\ ~C_WhaleFlag

\* The example was evaluated, one of its wallets scoring 50 points.
C5_Witness ==
    /\ C5_Example
    /\ locals.stage = "decided"
    /\ \E i \in DOMAIN topHolders : topHolders[i].credibilityScore.total = 5000

C_BoostDue ==
    /\ Len(topHolders) >= 5
    /\ 5 * Max(C_Count("YES"), C_Count("NO")) >= 4 * Len(topHolders)

\* C6: after the whale penalty, the confidence gains exactly 1 (never
\* exceeding 10) if and only if there are at least 5 ranked wallets and the
\* larger side by count holds at least 80% of them; otherwise it is unchanged.
C6_CountBoost ==
    C_Decided =>
        /\ result.confidence = IF C_BoostDue THEN Min(10, locals.penalised + 1)
                               ELSE locals.penalised
        /\ result.confidence <= 10
        /\ C_BoostDue => result.confidence = locals.penalised + 1

\* The boost was given for a count majority on NO while YES dominates by
\* weighted value.
C6_Witness ==
    /\ C_Decided
    /\ C_BoostDue
    /\ C_Count("NO") > C_Count("YES")
    /\ 2 * C_Yes > C_Total
    /\ result.confidence = locals.penalised + 1

\* C7: every returned TradingSignal has a signal among BUY YES, BUY NO and
\* INCONCLUSIVE and an integer confidence in 0..10, which is 0 exactly when
\* the result carries no SignalData and in 1..10 when it carries one.
C7_ResultShape ==
    result # NoResult =>
        /\ result.signal \in { "BUY YES", "BUY NO", "INCONCLUSIVE" }
        /\ result.confidence \in 0..10
        /\ (result.confidence = 0) <=> (result.data = << >>)
        /\ result.data # << >> => result.confidence \in 1..10

\* A result with SignalData whose confidence was floored at 1.
C7_Witness ==
    /\ result # NoResult
    /\ result.data # << >>
    /\ result.confidence = 1
    /\ locals.base = 3
    /\ locals.whale # 0

\* C8: every score has 0 <= profit <= 40, 0 <= winRate <= 25,
\* 0 <= volume <= 15, 0 <= recency <= 10, 0 <= conviction <= 10, and a total
\* equal to the sum of the five components, within 0..100.
C8_ScoreBounds ==
    \A i \in DOMAIN scoreLog :
        LET s == scoreLog[i].score
            b == s.breakdown
        IN  /\ 0 <= b.profit /\ b.profit <= 4000
            /\ 0 <= b.winRate /\ b.winRate <= 2500
            /\ 0 <= b.volume /\ b.volume <= 1500
            /\ 0 <= b.recency /\ b.recency <= 1000
            /\ 0 <= b.conviction /\ b.conviction <= 1000
            /\ s.total = b.profit + b.winRate + b.volume + b.recency + b.conviction
            /\ 0 <= s.total /\ s.total <= 10000

\* A profile whose raw profit score exceeds 40 scored the full 100 points.
C8_Witness ==
    \E i \in DOMAIN scoreLog :
        /\ profile.totalProfit = 2000000
        /\ scoreLog[i].score.breakdown.profit = 4000
        /\ scoreLog[i].score.total = 10000

C_DaysSeen(at) ==
    IF ~profile.lastTradeDate.valid \/ profile.lastTradeDate.time > at THEN -1
    ELSE (at - profile.lastTradeDate.time) \div 24

C_Floors(h) == h.currentPositionSize >= 100 \/ h.totalProfit >= 1000

C_InputIndex(h) == CHOOSE i \in DOMAIN enriched : enriched[i].address = h.address

\* The total score of an enriched profile, computed from the profile.
C_ScoreOf(p) == calculateCredibilityScore(p, now).total

\* The enriched profiles that pass a floor and are not among the ranked ones.
C_LeftOut ==
    { i \in DOMAIN enriched :
        /\ C_Floors(enriched[i])
        /\ \A j \in DOMAIN topHolders : topHolders[j].address # enriched[i].address }

\* C11: the wallets handed to generateTradingSignal are qualified wallets,
\* each once, at most 20 of them and all of them when there are 20 or fewer;
\* they are in non-increasing order of total score with ties in enrichment
\* order; every qualified wallet left out scores no more than every wallet
\* kept and, on a tie, comes later in enrichment order; and
\* SignalData.topHolders summarises exactly those wallets in the same order.
C11_RankedTopTwenty ==
    (pc = "done" /\ C_QualifiedCount > 0) =>
        /\ Len(topHolders) = Min(20, C_QualifiedCount)
        /\ \A j \in DOMAIN topHolders :
             /\ \E i \in DOMAIN enriched : enriched[i].address = topHolders[j].address
             /\ C_Floors(enriched[C_InputIndex(topHolders[j])])
             /\ topHolders[j].credibilityScore.total
                    = C_ScoreOf(enriched[C_InputIndex(topHolders[j])])
        /\ \A j, k \in DOMAIN topHolders :
             j < k =>
                 /\ topHolders[j].address # topHolders[k].address
                 /\ topHolders[j].credibilityScore.total
                        >= topHolders[k].credibilityScore.total
                 /\ topHolders[j].credibilityScore.total
                        = topHolders[k].credibilityScore.total
                    => C_InputIndex(topHolders[j]) < C_InputIndex(topHolders[k])
        /\ \A i \in C_LeftOut : \A j \in DOMAIN topHolders :
             /\ C_ScoreOf(enriched[i]) <= topHolders[j].credibilityScore.total
             /\ C_ScoreOf(enriched[i]) = topHolders[j].credibilityScore.total
                => C_InputIndex(topHolders[j]) < i
        /\ result.data # << >> =>
             /\ Len(result.data[1].topHolders) = Len(topHolders)
             /\ \A j \in DOMAIN topHolders :
                  /\ result.data[1].topHolders[j].address
                         = shortenAddress(topHolders[j].address)
                  /\ result.data[1].topHolders[j].score
                         = topHolders[j].credibilityScore.total
                  /\ result.data[1].topHolders[j].position
                         = topHolders[j].currentPosition

\* More than 20 wallets qualified and the slice cut inside a group of equal
\* scores: a wallet left out ties with the last one kept and scores less than
\* the first one kept, and two neighbours among the kept ones tie.
C11_Witness ==
    /\ pc = "done"
    /\ C_QualifiedCount > 20
    /\ Len(topHolders) = 20
    /\ result.data # << >>
    /\ \E i \in C_LeftOut :
         /\ C_ScoreOf(enriched[i]) < topHolders[1].credibilityScore.total
         /\ C_ScoreOf(enriched[i]) = topHolders[20].credibilityScore.total
    /\ \E j \in 1..19 :
         topHolders[j].credibilityScore.total
             = topHolders[j + 1].credibilityScore.total
    /\ \E j \in 1..19 :
         topHolders[j].credibilityScore.total
             = topHolders[j + 1].credibilityScore.total

\* The places of the raw holders in the listings: << listing, rank in it >>.
C_Places ==
    UNION { { << k, j >> : j \in DOMAIN responses[k].holders } : k \in DOMAIN responses }

C_Raw(p) == responses[p[1]].holders[p[2]]

C_Before(p, q) == p[1] < q[1] \/ (p[1] = q[1] /\ p[2] < q[2])

\* No earlier place holds the same address, written the same way.
C_FirstSeen(p) ==
    \A q \in C_Places :
        C_Raw(q).proxyWallet = C_Raw(p).proxyWallet => ~C_Before(q, p)

C_RecordsOf(addr) == { i \in DOMAIN holders : holders[i].address = addr }

\* C12: after mapHoldersToPositions, every address of the listings has exactly
\* one output record, that record carries the side and the price of the
\* listing of the address's first occurrence and the share count of that
\* occurrence, and every output record is the record of such an address.
C12_FirstSeenWins ==
    pc = "mapped" =>
        /\ \A p \in C_Places :
             /\ Cardinality(C_RecordsOf(C_Raw(p).proxyWallet)) = 1
             /\ C_FirstSeen(p) =>
                  \A i \in C_RecordsOf(C_Raw(p).proxyWallet) :
                      LET listing == ResolveListing(market, responses[p[1]].token, p[1] - 1)
                      IN  /\ holders[i].shares = C_Raw(p).amount
                          /\ holders[i].currentPosition = listing.position
                          /\ 100 * holders[i].currentPositionSize
                                 = C_Raw(p).amount
                                     * priceForOutcome(market, listing.outcomeName)
        /\ \A i \in DOMAIN holders :
             \E p \in C_Places : C_Raw(p).proxyWallet = holders[i].address

\* An address stands in the first listing and again in the second, whose side
\* is the other one; the one record it has is on the first listing's side.
C12_Witness ==
    /\ pc = "mapped"
    /\ \E p, q \in C_Places :
         /\ p[1] = 1
         /\ q[1] = 2
         /\ C_Raw(p).proxyWallet = C_Raw(q).proxyWallet
         /\ ResolveListing(market, responses[1].token, 0).position
                # ResolveListing(market, responses[2].token, 1).position
         /\ \E i \in DOMAIN holders :
              /\ holders[i].address = C_Raw(p).proxyWallet
              /\ holders[i].currentPosition
                     = ResolveListing(market, responses[1].token, 0).position
    /\ \E p, q \in C_Places :
         /\ p[1] = q[1]
         /\ p[2] < q[2]
         /\ C_Raw(p).proxyWallet = C_Raw(q).proxyWallet

\* C13: the mapper's output never holds two records whose addresses are equal
\* when letter case is ignored.
C13_CaseInsensitiveKey ==
    pc = "mapped" =>
        \A i, j \in DOMAIN holders :
            i # j => toLowerCase(holders[i].address) # toLowerCase(holders[j].address)

\* C14 as stated: when fetchHolders returns no listing, analyzeMarket ends in
\* an error.
C14_Original ==
    (pc # "fetchHolders" /\ listings = 0) => pc = "error"

\* C14, amended: when fetchHolders returns no listing, analyzeMarket returns
\* a result: INCONCLUSIVE, confidence 0, no SignalData, the reasoning and one
\* warning saying that no holder data is available; nothing is enriched.
C14_Amended ==
    (pc = "done" /\ listings = 0) =>
        /\ result.signal = "INCONCLUSIVE"
        /\ result.confidence = 0
        /\ result.data = << >>
        /\ result.reasoning.head = "NoHolderData"
        /\ \E i \in DOMAIN warnings : warnings[i].kind = "NoHolderData"
        /\ enriched = << >>

\* fetchHolders returned no listing and analyzeMarket returned a result.
C14_Witness ==
    /\ pc = "done"
    /\ listings = 0
    /\ result.signal = "INCONCLUSIVE"
    /\ result.reasoning.head = "NoHolderData"

\* The leaderboard of wallet i was answered by the entry an earlier analysis
\* had left in the cache.
C_WarmHit(i) ==
    /\ holders[i].address = Addr(1)
    /\ \E c \in cache.leaderboard : c.addr = Addr(1) /\ c.data.pnl = 7000

\* The sum of the cashPnl of the positions the Data API returned for wallet i.
C_PositionPnl(i) ==
    IF upstream[i].pos.status = "ok" THEN SumCashPnl(upstream[i].pos.body) ELSE 0

\* C15: when the leaderboard returns an entry for a wallet, the profit is the
\* entry's PnL if the entry's wallet address equals the requested address
\* ignoring case; for any other entry, one without a wallet address included,
\* the profit is the sum of the position-level PnL and nothing is cached
\* under the wallet's leaderboard key.
C15_LeaderboardOnlyIfOwn ==
    pc = "enriched" =>
        \A i \in DOMAIN holders :
            (~C_WarmHit(i) /\ upstream[i].lb.status = "ok" /\ upstream[i].lb.body # << >>) =>
                LET entry == upstream[i].lb.body[1]
                IN  IF /\ entry.proxyWallet # << >>
                       /\ toLowerCase(entry.proxyWallet) = toLowerCase(holders[i].address)
                    THEN enriched[i].totalProfit = entry.pnl
                    ELSE /\ enriched[i].totalProfit = C_PositionPnl(i)
                         /\ \A c \in cache.leaderboard : c.addr # holders[i].address

\* An answer in which every failure is replaced by an empty body.
C_Healed(answer) == IF answer.status = "fail" THEN Answered(<< >>) ELSE answer

\* The profile of wallet i had none of its requests failed.
C_Reference(i) ==
    enrichSingleHolder(
            holders[i],
            IF C_WarmHit(i)
            THEN << (CHOOSE c \in WarmCache.leaderboard : TRUE).data >>
            ELSE fetchUserLeaderboard(holders[i].address, C_Healed(upstream[i].lb)).value,
            C_Healed(upstream[i].pos).body,
            C_Healed(upstream[i].act).body,
            now)

\* C16: enrichHolders never raises; it returns one profile per input record;
\* a wallet's profile is the one it would have with an empty answer in place
\* of each failed request, whatever happened to the other wallets; a failed
\* positions request leaves the position-derived fields at zero and a failed
\* leaderboard request leaves the volume at zero.
C16_FailureIsolation ==
    /\ pc # "error"
    /\ pc = "enriched" =>
         /\ Len(enriched) = Len(holders)
         /\ \A i \in DOMAIN holders :
              /\ enriched[i] = C_Reference(i)
              /\ upstream[i].pos.status = "fail" =>
                   /\ enriched[i].positionsSampled = 0
                   /\ enriched[i].winRate = 0
                   /\ enriched[i].avgPositionSize = 0
              /\ (upstream[i].lb.status = "fail" /\ ~C_WarmHit(i)) =>
                   enriched[i].totalVolume = 0

\* Two wallets: the positions request of the first failed while its other
\* two were answered, every request of the second was answered, and both
\* profiles came back with what the answered requests gave.
C16_Witness ==
    /\ pc = "enriched"
    /\ Len(holders) = 2
    /\ cache.positions # { }
    /\ upstream[1].pos.status = "fail"
    /\ upstream[1].lb = Answered(<< LeaderboardEntry(Addr(1)) >>)
    /\ upstream[1].act.status = "ok"
    /\ upstream[2] = NeighbourAnswers(1, Addr(2))
    /\ enriched[1].totalProfit = 5000
    /\ enriched[1].positionsSampled = 0
    /\ enriched[2].totalProfit = 5000
    /\ enriched[2].positionsSampled = 2

\* C20: at every moment the profiles collected so far are those of the first
\* input records, in input order, each with the address, side, dollar size
\* and share count of its input record and with the history its own answers
\* give; when enrichHolders returns there is one per input record.
C20_InputOrderKept ==
    /\ Len(enriched) <= Len(holders)
    /\ \A i \in DOMAIN enriched :
         /\ enriched[i].address = holders[i].address
         /\ enriched[i].currentPosition = holders[i].currentPosition
         /\ enriched[i].currentPositionSize = holders[i].currentPositionSize
         /\ enriched[i].shares = holders[i].shares
         /\ enriched[i] = C_Reference(i)
    /\ pc = "enriched" => Len(enriched) = Len(holders)

\* Eleven wallets, so two batches; in the first batch the call of the last
\* wallet settled first, and the profiles came back in input order.
C20_Witness ==
    /\ pc = "enriched"
    /\ Len(holders) > CONCURRENCY
    /\ Len(batch.firsts) = 2
    /\ batch.firsts[1] = CONCURRENCY
    /\ Len(enriched) = Len(holders)
    /\ enriched[1].address = Addr(1)
    /\ enriched[CONCURRENCY + 1].address = Addr(CONCURRENCY + 1)

\* The status the error class of a failed request calls for: 400 for a url
\* that is missing, foreign or without event path and for an event without
\* markets, 404 for an event that does not exist, 429 for a 429 from the
\* event or the holder lookup, 500 for the rest.
C_StatusOfClass ==
    IF request.url \in { "missing", "foreign", "noEventPath" } THEN 400
    ELSE IF request.event = "404" THEN 404
    ELSE IF request.event = "429" THEN 429
    ELSE IF request.event = "okNoMarkets" THEN 400
    ELSE IF request.event \in { "500", "timeout" } THEN 500
    ELSE IF request.listing = "429" THEN 429
    ELSE 500

\* C17: every failed analysis request is answered with the status of its
\* error class.
C17_StatusByErrorClass ==
    (pc = "responded" /\ response.status # 200) => response.status = C_StatusOfClass

\* The warnings a run has generated when analyzeMarket returns, in the order
\* of their generation.
C_Generated ==
    (IF market.outcomePrices = << 50, 50 >> THEN << Warning("Prices5050", 0, 0) >> ELSE << >>)
    \o (IF listings = 0 THEN << Warning("NoHolderData", 0, 0) >> ELSE << >>)
    \o (IF mapWarn THEN << Warning("IndexFallback", 0, 0) >> ELSE << >>)
    \o (IF Len(SelectSeq(enriched, HasNoData)) > 0
        THEN << Warning("IncompleteProfiles", Len(SelectSeq(enriched, HasNoData)),
                        Len(enriched)) >>
        ELSE << >>)
    \o (IF 2 * Len(SelectSeq(enriched, HasNoData)) > Len(enriched)
        THEN << Warning("NoHistoricalData", Len(SelectSeq(enriched, HasNoData)),
                        Len(enriched)) >>
        ELSE << >>)

\* C18: whenever analyzeMarket returns a result, its warnings list is the
\* list of the warnings generated in the run, in order; and a run in which a
\* warning was generated ends in an error only if fetchHolders failed.
C18_WarningsKept ==
    /\ pc = "done" => warnings = C_Generated
    /\ (pc = "responded" /\ response.status # 200 /\ warnings # << >>)
           => request.listing \in { "429", "500" }

\* C19: once the page's timeout has fired, the analysis sends no further
\* request and writes nothing more to the cache, and the page stays with its
\* error and without result.
C19_AbortStopsPipeline ==
    [][ client = "timedOut" =>
            /\ fetches' = fetches
            /\ cache' = cache
            /\ client' = "timedOut" ]_vars

\* The requests of the running batch that have been sent and not answered:
\* three for each wallet in flight, less what the cache answered.
C_FetchesInFlight ==
    LET open(j) == (IF batch.plans[j].lb = << >> THEN 1 ELSE 0)
                   + (IF batch.plans[j].pos = << >> THEN 1 ELSE 0) + 1
        sum[S \in SUBSET batch.inflight] ==
            IF S = { } THEN 0
            ELSE LET j == CHOOSE x \in S : TRUE IN open(j) + sum[S \ { j }]
    IN  sum[batch.inflight]

\* C21: at most CONCURRENCY wallets are in flight, hence at most three times
\* as many requests, and while a wallet of a batch is in flight every wallet
\* of the batches before it has returned and stands in the results.
C21_BoundedConcurrency ==
    /\ Cardinality(batch.inflight) <= CONCURRENCY
    /\ C_FetchesInFlight <= 3 * CONCURRENCY
    /\ batch.phase = "running" =>
           /\ Len(enriched) = batch.start
           /\ \A j \in 1..Len(batch.settled) :
                  batch.start + j <= Len(holders)
                  /\ batch.start + j <= batch.start + CONCURRENCY

\* A full batch is in flight while an eleventh wallet waits for its turn.
C21_Witness ==
    /\ Len(holders) > CONCURRENCY
    /\ batch.start = 0
    /\ Cardinality(batch.inflight) = CONCURRENCY
    /\ C_FetchesInFlight = 3 * CONCURRENCY

\* The listing's token is a key of the market's token-to-outcome map.
C_InMap(k) ==
    \E i \in 1..Min(Len(market.outcomes), Len(market.clobTokenIds)) :
        market.clobTokenIds[i] = responses[k].token

\* The label the map holds for the token of listing k.
C_Label(k) ==
    market.outcomes[CHOOSE i \in 1..Min(Len(market.outcomes), Len(market.clobTokenIds)) :
                        market.clobTokenIds[i] = responses[k].token]

\* The side the rule of position resolution gives to listing k.
C_SideOf(k) ==
    IF C_InMap(k)
    THEN (IF toUpperCase(C_Label(k)) = "YES" THEN "YES" ELSE "NO")
    ELSE (IF k = 1 THEN "YES" ELSE "NO")

\* C22: every record of the mapper's output has the side of its listing: by
\* the label of the listing's token when the token-to-outcome map holds it
\* (YES for a label that reads "yes" in any letter case, NO otherwise), by the
\* listing's place when it does not (YES for the first, NO for the others);
\* and the mapping warning is emitted once when a listing's token is not in
\* the map and not at all otherwise.
C22_PositionResolution ==
    pc = "mapped" =>
        /\ \A p \in C_Places :
             C_FirstSeen(p) =>
                 \A i \in C_RecordsOf(C_Raw(p).proxyWallet) :
                     holders[i].currentPosition = C_SideOf(p[1])
        /\ Len(SelectSeq(warnings, LAMBDA w : w = Warning("IndexFallback", 0, 0)))
               = IF \E k \in DOMAIN responses : ~C_InMap(k) THEN 1 ELSE 0

\* A market whose map reads "No" for the first listing's token, which holds a
\* wallet: the wallet's record is on the NO side though it comes first; and
\* no warning is emitted.
C22_Witness ==
    /\ pc = "mapped"
    /\ Len(responses) = 2
    /\ C_InMap(1)
    /\ C_Label(1) = "No"
    /\ responses[1].holders # << >>
    /\ holders[1].currentPosition = "NO"
    /\ warnings = << >>

\* The price of the market's Yes outcome, in cents; 50 when it has none.
C_YesPrice ==
    LET yes == { i \in DOMAIN market.outcomes : toUpperCase(market.outcomes[i]) = "YES" }
        i == CHOOSE x \in yes : TRUE
    IN  IF yes # { } /\ i <= Len(market.outcomePrices) THEN market.outcomePrices[i] ELSE 50

C_NoEntry(i) ==
    \/ upstream[i].lb.status = "fail"
    \/ upstream[i].lb.body = << >>
    \/ upstream[i].lb.body[1].proxyWallet = SomeoneElse

\* C24 as stated: without leaderboard entry, totalProfit is the sum of the
\* position-level PnL when its absolute value is at most the ceiling, the
\* ceiling included, and 0 when it is above.
C24_Original ==
    pc = "enriched" =>
        \A i \in DOMAIN enriched :
            C_NoEntry(i) =>
                enriched[i].totalProfit =
                    IF Abs(C_PositionPnl(i)) <= PNL_SANITY_LIMIT THEN C_PositionPnl(i) ELSE 0

\* C24, amended: without leaderboard entry, totalProfit is the sum of the
\* position-level PnL when its absolute value is below the ceiling, and 0
\* when it is the ceiling or above.
C24_Amended ==
    pc = "enriched" =>
        \A i \in DOMAIN enriched :
            C_NoEntry(i) =>
                /\ (C_PositionPnl(i) < PNL_SANITY_LIMIT /\ C_PositionPnl(i) > -PNL_SANITY_LIMIT)
                       => enriched[i].totalProfit = C_PositionPnl(i)
                /\ (C_PositionPnl(i) >= PNL_SANITY_LIMIT \/ C_PositionPnl(i) <= -PNL_SANITY_LIMIT)
                       => enriched[i].totalProfit = 0

\* A wallet without leaderboard entry whose positions sum to the ceiling
\* exactly has been enriched, with a profit of 0.
C24_Witness ==
    /\ pc = "enriched"
    /\ C_NoEntry(1)
    /\ Len(upstream[1].pos.body) = 2
    /\ C_PositionPnl(1) = PNL_SANITY_LIMIT
    /\ enriched[1].totalProfit = 0

\* The activity source supplied a usable timestamp for wallet i.
C_Usable(i) ==
    /\ upstream[i].act.status = "ok"
    /\ upstream[i].act.body # << >>
    /\ upstream[i].act.body[1].timestamp.unit \in { "s", "ms", "iso" }

\* C25: the last-trade time is the most recent activity timestamp when there
\* is a usable one; otherwise the current time for a wallet with a sampled
\* position and epoch-zero for a wallet without.
C25_LastTradeTime ==
    pc = "enriched" =>
        \A i \in DOMAIN enriched :
            enriched[i].lastTradeDate =
                IF C_Usable(i)
                THEN DateAt(upstream[i].act.body[1].timestamp.hours)
                ELSE IF enriched[i].positionsSampled > 0 THEN DateAt(now)
                ELSE EpochZero

\* C26: an INCONCLUSIVE result with SignalData says "split" exactly when
\* dominance < 0.60, and says that a lean did not meet the confidence
\* threshold only when its confidence is below 5.
C26_ReasoningTail ==
    (C_Decided /\ result.signal = "INCONCLUSIVE" /\ result.data # << >>) =>
        /\ (result.reasoning.tail = "Split") <=> (5 * C_Dom < 3 * C_Total)
        /\ (result.reasoning.tail = "LeanBelowThreshold") => result.confidence < 5

\* The hours between the last trade and a call made at `at`.
C_Age(at) == at - profile.lastTradeDate.time

\* C27: the recency score is 10 for a last trade 0 to 7 whole days old, 7 for
\* 8 to 30 days, 4 for 31 to 90 days and 0 beyond, and 10 for a last-trade
\* time that is invalid or in the future.
C27_RecencySteps ==
    \A i \in DOMAIN scoreLog :
        LET at == scoreLog[i].at
            recency == scoreLog[i].score.breakdown.recency
        IN  IF ~profile.lastTradeDate.valid \/ profile.lastTradeDate.time > at
            THEN recency = 1000
            ELSE /\ C_Age(at) < 8 * 24 => recency = 1000
                 /\ (8 * 24 <= C_Age(at) /\ C_Age(at) < 31 * 24) => recency = 700
                 /\ (31 * 24 <= C_Age(at) /\ C_Age(at) < 91 * 24) => recency = 400
                 /\ 91 * 24 <= C_Age(at) => recency = 0

\* A last trade seven days old scored 10, and a day later, eight days old, 7.
C27_Witness ==
    /\ Len(scoreLog) = 2
    /\ C_Age(scoreLog[1].at) = 7 * 24
    /\ scoreLog[1].score.breakdown.recency = 1000
    /\ C_Age(scoreLog[2].at) = 8 * 24
    /\ scoreLog[2].score.breakdown.recency = 700

C_AllBlank ==
    \A i \in DOMAIN upstream :
        /\ upstream[i].lb.status = "fail" \/ upstream[i].lb.body = << >>
        /\ upstream[i].pos.status = "fail" \/ upstream[i].pos.body = << >>
        /\ upstream[i].act.status = "fail" \/ upstream[i].act.body = << >>

\* C29: when every source of every wallet fails or returns nothing, every
\* ranked profile has a total score of 0 and analyzeMarket returns
\* INCONCLUSIVE with confidence 0, whatever the sizes and sides.
C29_BlankIsInconclusive ==
    (pc = "done" /\ C_AllBlank) =>
        /\ \A i \in DOMAIN scoredHolders : scoredHolders[i].credibilityScore.total = 0
        /\ result.signal = "INCONCLUSIVE"
        /\ result.confidence = 0

\* Four wallets without any history, all on YES with positions above the
\* floor, were ranked, and the result is INCONCLUSIVE.
C29_Witness ==
    /\ pc = "done"
    /\ C_AllBlank
    /\ Len(topHolders) = 4
    /\ \A i \in DOMAIN topHolders :
         /\ topHolders[i].currentPosition = "YES"
         /\ topHolders[i].currentPositionSize >= 200
    /\ locals.stage = "zeroTotal"
    /\ result.signal = "INCONCLUSIVE"

\* The entries of the kind that answer a call for the key at the clock.
C_Live(kind) ==
    { e \in cache[kind] : e.addr = CacheKey /\ now <= e.expiresAt }

\* The request of the call just made completed without error and, for the
\* leaderboard, returned an entry that is not another wallet's.
C_Completed ==
    /\ request'.answer.status = "ok"
    /\ request'.kind = "leaderboard" =>
           /\ request'.answer.body # << >>
           /\ LET wallet == request'.answer.body[1].proxyWallet
              IN  ~(wallet # << >> /\ toLowerCase(wallet) # toLowerCase(CacheKey))

\* C30: an entry comes into the cache only by a call whose request completed
\* without error (with an accepted entry, for the leaderboard), and such a
\* call leaves one; a call that follows a failed call for the same key sends
\* the request again; and a call made while an unexpired entry is stored
\* returns the stored value without sending a request.
C30_CacheHoldsSuccesses ==
    [][ /\ \A kind \in { "event", "holders", "positions", "leaderboard" } :
             \A e \in cache'[kind] \ cache[kind] :
                 /\ now' = now
                 /\ request'.kind = kind
                 /\ response'.queried
                 /\ C_Completed
        /\ now' = now =>
             /\ (response'.queried /\ C_Completed) =>
                    \E e \in cache'[request'.kind] :
                        e.addr = CacheKey /\ response'.value = << e.data >>
             /\ (request.kind = request'.kind /\ request.answer.status = "fail")
                    => response'.queried
             /\ C_Live(request'.kind) # { } =>
                    /\ ~response'.queried
                    /\ \E e \in C_Live(request'.kind) : response'.value = << e.data >>
                    /\ cache' = cache ]_vars

\* A call for the positions was answered from the cache at the last minute
\* of the entry's life, after a run in which one of two requests left
\* nothing in the cache.
C30_Witness ==
    /\ pc = "cache"
    /\ request.kind = "positions"
    /\ ~response.queried
    /\ response.value = << SamplePositions >>
    /\ \E e \in cache.positions : e.expiresAt = now
    /\ fetches = 2
    /\ cache.event = { }
    /\ cache.holders = { }
    /\ cache.leaderboard = { }

====
